---- MODULE Spec2Model ----
(***************************************************************************)
(* Time-entry workflow engine of zcor-backend (services/timeEntryService.js *)
(* and utils/timeMath.js), as a state machine over the stored TimeEntry     *)
(* documents.                                                               *)
(*                                                                          *)
(* Representation.  An HH:mm string is a sequence of one-character strings, *)
(* so that timeToMinutes is a parser and not the identity.  The empty       *)
(* sequence is the empty/missing string.  Ids, dates and roles are strings; *)
(* NULL stands for null/undefined.  An optional number (breakMinutes) is the *)
(* empty set when absent and a singleton when given.                        *)
(* notes and location are payload that no guard reads; they are left out.   *)
(***************************************************************************)
EXTENDS Integers, Sequences, FiniteSets, TLC

VARIABLES
  entries,   \* the TimeEntry collection: a sequence of documents, _id = index
  shifts,    \* the Shift collection: a sequence of documents, _id = index
  resp,      \* the response of the last completed call
  inflight   \* per request slot: a call suspended at a persistence round-trip

vars == <<entries, shifts, resp, inflight>>

NULL == "null"

\* an argument that was not passed (undefined), where a string is expected;
\* << >> is the empty string
UNDEF == <<"undefined">>

\* !s of JavaScript for a string argument
Missing(s) == s = << >> \/ s = UNDEF

----------------------------------------------------------------------------
(* Bounds of the model *)

\* number of manual entries created in a run of Spec
MaxEntries == 1

\* number of manual entries created in a run of SpecOverlap
MaxOverlapEntries == 2

\* number of request slots that may be in flight at once (interleaved runs)
MaxProcs == 2

\* number of manual entries created in a run of SpecRead
MaxReadEntries == 2

\* number of manual entries, and of shifts, created in a run of SpecTenant
MaxTenantDocs == 2

Procs == 1..MaxProcs

----------------------------------------------------------------------------
(* Identity: users, roles, tenants *)

Businesses == {"B1", "B2"}

UserTable ==
  [ e1 |-> [business |-> "B1", role |-> "employee", status |-> "active"],
    m1 |-> [business |-> "B1", role |-> "manager",  status |-> "active"],
    o1 |-> [business |-> "B1", role |-> "owner",    status |-> "active"],
    x1 |-> [business |-> "B1", role |-> "employee", status |-> "disabled"],
    o2 |-> [business |-> "B2", role |-> "owner",    status |-> "active"] ]

UserIds == DOMAIN UserTable

Actor(u) == [_id |-> u, role |-> UserTable[u].role]

isManagerLike(role) == role = "owner" \/ role = "manager"

\* a lookup that does not look at the status of the user
ensureUserInBusiness_AnyStatus(businessId, userId) ==
  IF userId \notin UserIds \/ UserTable[userId].business # businessId
    THEN "NotFound"
  ELSE "ok"

\* the kind of failure ensureUserInBusiness throws, or "ok"
ensureUserInBusiness(businessId, userId) ==
  IF userId \notin UserIds \/ UserTable[userId].business # businessId
    THEN "NotFound"
  ELSE IF UserTable[userId].status \in {"deleted", "disabled"}
    THEN "Forbidden"
  ELSE "ok"

requireSameBusiness(reqBusinessId, docBusinessId) == reqBusinessId = docBusinessId

\* a type guard that lets every entry through
ensureManual_AnyType(entry) == TRUE

ensureManual(entry) == entry.entryType = "manual"

\* a guard that only refuses void entries
isEditableStatus_NotVoid(status) == status # "void"

isEditableStatus(status) == status = "draft" \/ status = "rejected"

----------------------------------------------------------------------------
(* utils/timeMath.js *)

Digits == {"0", "1", "2", "3", "4", "5", "6", "7", "8", "9"}

DigitVal(c) ==
  CASE c = "0" -> 0 [] c = "1" -> 1 [] c = "2" -> 2 [] c = "3" -> 3
    [] c = "4" -> 4 [] c = "5" -> 5 [] c = "6" -> 6 [] c = "7" -> 7
    [] c = "8" -> 8 [] c = "9" -> 9

\* TIME_REGEX = /^([01]\d|2[0-3]):([0-5]\d)$/
TIME_REGEX(s) ==
  /\ Len(s) = 5
  /\ \/ s[1] \in {"0", "1"} /\ s[2] \in Digits
     \/ s[1] = "2" /\ s[2] \in {"0", "1", "2", "3"}
  /\ s[3] = ":"
  /\ s[4] \in {"0", "1", "2", "3", "4", "5"}
  /\ s[5] \in Digits

\* the minutes since midnight; -1 stands for the thrown "Invalid time format"
timeToMinutes(hhmm) ==
  IF ~TIME_REGEX(hhmm) THEN -1
  ELSE (DigitVal(hhmm[1]) * 10 + DigitVal(hhmm[2])) * 60
       + DigitVal(hhmm[4]) * 10 + DigitVal(hhmm[5])

Max(a, b) == IF a >= b THEN a ELSE b

\* roundMinutes whose mode up always moves to the next multiple
roundMinutes_UpPastMultiple(minutes, increment, mode) ==
  IF increment <= 0 THEN minutes
  ELSE IF mode = "up"
    THEN ((minutes \div increment) + 1) * increment
  ELSE IF mode = "down"
    THEN (minutes \div increment) * increment
  ELSE ((2 * minutes + increment) \div (2 * increment)) * increment

\* Math.round(x) of x = minutes / inc is floor(x + 1/2)
roundMinutes(minutes, increment, mode) ==
  IF increment <= 0 THEN minutes
  ELSE IF mode = "up"
    THEN ((minutes + increment - 1) \div increment) * increment
  ELSE IF mode = "down"
    THEN (minutes \div increment) * increment
  ELSE ((2 * minutes + increment) \div (2 * increment)) * increment

\* Number(breakMinutes || 0): the given number, 0 when absent
NumberOr0(opt) == IF opt = {} THEN 0 ELSE CHOOSE x \in opt : TRUE

\* computeManualTotals without the comparison of the break with the interval
computeManualTotals_BreakUnchecked(startTime, endTime, breakMinutes, roundingMinutes, roundingMode) ==
  LET start == timeToMinutes(startTime)
      end == timeToMinutes(endTime)
      totalMinutes == end - start
      breakMins == Max(0, NumberOr0(breakMinutes))
      paidMinutes == Max(0, totalMinutes - breakMins)
  IN  IF start < 0 \/ end < 0 THEN [ok |-> FALSE, error |-> "InvalidFormat"]
      ELSE IF end <= start THEN [ok |-> FALSE, error |-> "InvalidRange"]
      ELSE [ok |-> TRUE, totalMinutes |-> totalMinutes, breakMinutes |-> breakMins,
            paidMinutes |-> paidMinutes,
            paidMinutesRounded |-> roundMinutes(paidMinutes, roundingMinutes, roundingMode)]

\* ok = FALSE stands for the thrown Error
computeManualTotals(startTime, endTime, breakMinutes, roundingMinutes, roundingMode) ==
  LET start == timeToMinutes(startTime)
      end == timeToMinutes(endTime)
      totalMinutes == end - start
      breakMins == Max(0, NumberOr0(breakMinutes))
      paidMinutes == Max(0, totalMinutes - breakMins)
  IN  IF start < 0 \/ end < 0 THEN [ok |-> FALSE, error |-> "InvalidFormat"]
      ELSE IF end <= start THEN [ok |-> FALSE, error |-> "InvalidRange"]
      ELSE IF breakMins > totalMinutes THEN [ok |-> FALSE, error |-> "InvalidBreak"]
      ELSE [ok |-> TRUE, totalMinutes |-> totalMinutes, breakMinutes |-> breakMins,
            paidMinutes |-> paidMinutes,
            paidMinutesRounded |-> roundMinutes(paidMinutes, roundingMinutes, roundingMode)]

----------------------------------------------------------------------------
(* models/TimeEntry.js: what Mongoose validation accepts on create/save *)

\* DATE_REGEX = /^\d{4}-\d{2}-\d{2}$/ on the dates of the model, which are
\* atoms: the well-formed ones are listed
DATE_REGEX(v) == v \in {"2024-01-04", "2024-01-05", "2024-01-06"}

\* the schema without min: 0 on breakMinutes
validEntry_NoMin(doc) ==
  /\ doc.workDate = NULL \/ DATE_REGEX(doc.workDate)
  /\ doc.startTime = << >> \/ TIME_REGEX(doc.startTime)
  /\ doc.endTime = << >> \/ TIME_REGEX(doc.endTime)
  /\ doc.status \in {"draft", "submitted", "approved", "rejected", "void", "open"}
  /\ doc.entryType = "manual" =>
       doc.workDate # NULL /\ doc.startTime # << >> /\ doc.endTime # << >>

\* the schema validators and the pre("validate") hook; FALSE is a thrown
\* ValidationError, which is not one of the typed failures of the service
validEntry(doc) ==
  /\ doc.workDate = NULL \/ DATE_REGEX(doc.workDate)
  /\ doc.breakMinutes >= 0
  /\ doc.startTime = << >> \/ TIME_REGEX(doc.startTime)
  /\ doc.endTime = << >> \/ TIME_REGEX(doc.endTime)
  /\ doc.status \in {"draft", "submitted", "approved", "rejected", "void", "open"}
  /\ doc.entryType = "manual" =>
       doc.workDate # NULL /\ doc.startTime # << >> /\ doc.endTime # << >>

----------------------------------------------------------------------------
(* services/timeEntryService.js: the overlap checker *)

\* a test that only looks for an existing start inside the new interval
overlaps_StartInside(s, en, newStart, newEnd) == newStart <= s /\ s < newEnd

\* closed intervals: a common endpoint counts as an intersection
overlaps_Closed(s, en, newStart, newEnd) == s <= newEnd /\ en >= newStart

\* half-open interval intersection
overlaps(s, en, newStart, newEnd) == s < newEnd /\ en > newStart

\* an overlap query that does not leave out the entry being edited
overlapScope_SelfIncluded(docs, businessId, userId, workDate, excludeEntryId) ==
  { i \in 1..Len(docs) :
      /\ docs[i].business = businessId
      /\ docs[i].entryType = "manual"
      /\ docs[i].user = userId
      /\ docs[i].workDate = workDate
      /\ docs[i].status # "void" }

\* an overlap query that counts void entries as well
overlapScope_VoidToo(docs, businessId, userId, workDate, excludeEntryId) ==
  { i \in 1..Len(docs) :
      /\ docs[i].business = businessId
      /\ docs[i].entryType = "manual"
      /\ docs[i].user = userId
      /\ docs[i].workDate = workDate
      /\ i # excludeEntryId }

\* the documents the overlap query selects
overlapScope(docs, businessId, userId, workDate, excludeEntryId) ==
  { i \in 1..Len(docs) :
      /\ docs[i].business = businessId
      /\ docs[i].entryType = "manual"
      /\ docs[i].user = userId
      /\ docs[i].workDate = workDate
      /\ docs[i].status # "void"
      /\ i # excludeEntryId }

\* "ok", or the kind of failure thrown; excludeEntryId = 0 excludes nothing
ensureNoManualOverlap(docs, businessId, userId, workDate, startTime, endTime, excludeEntryId) ==
  LET newStart == timeToMinutes(startTime)
      newEnd == timeToMinutes(endTime)
      existing == overlapScope(docs, businessId, userId, workDate, excludeEntryId)
  IN  IF newStart < 0 \/ newEnd < 0 THEN "Error"
      ELSE IF newEnd <= newStart THEN "BadRequest"
      ELSE IF \E i \in existing :
                /\ docs[i].startTime # << >>
                /\ docs[i].endTime # << >>
                /\ overlaps(timeToMinutes(docs[i].startTime),
                            timeToMinutes(docs[i].endTime), newStart, newEnd)
        THEN "Conflict"
      ELSE "ok"

----------------------------------------------------------------------------
(* createManualTimeEntry *)

createUserId(actor, targetUserId) ==
  IF targetUserId # NULL THEN targetUserId ELSE actor._id

\* the checks up to and including computeManualTotals (lines 106-124)
createValidate(businessId, actor, targetUserId, workDate, startTime, endTime, breakMinutes) ==
  LET userId == createUserId(actor, targetUserId)
  IN  IF ~isManagerLike(actor.role) /\ userId # actor._id THEN "Forbidden"
      ELSE IF ensureUserInBusiness(businessId, userId) # "ok"
        THEN ensureUserInBusiness(businessId, userId)
      ELSE IF workDate = NULL THEN "BadRequest"
      ELSE IF Missing(startTime) THEN "BadRequest"
      ELSE IF Missing(endTime) THEN "BadRequest"
      ELSE IF ~computeManualTotals(startTime, endTime, breakMinutes, 0, "nearest").ok
        THEN "BadRequest"
      ELSE "ok"

\* the document handed to TimeEntry.create (lines 134-147)
createDoc(businessId, actor, targetUserId, workDate, startTime, endTime, breakMinutes) ==
  [ business |-> businessId,
    user |-> createUserId(actor, targetUserId),
    entryType |-> "manual",
    workDate |-> workDate,
    startTime |-> startTime,
    endTime |-> endTime,
    breakMinutes |-> NumberOr0(breakMinutes),
    status |-> "draft",
    submittedAt |-> NULL,
    approvedBy |-> NULL,
    approvedAt |-> NULL,
    rejectionReason |-> << >>,
    createdBy |-> actor._id,
    updatedBy |-> actor._id ]

\* the whole check of create against the collection as read: "ok" or a failure
createCheck(docs, businessId, actor, targetUserId, workDate, startTime, endTime, breakMinutes) ==
  LET v == createValidate(businessId, actor, targetUserId, workDate, startTime,
                          endTime, breakMinutes)
  IN  IF v # "ok" THEN v
      ELSE ensureNoManualOverlap(docs, businessId, createUserId(actor, targetUserId),
                                 workDate, startTime, endTime, 0)

\* the body of getTimeEntrySummary's answer before any row is folded in
NoSummary ==
  [ draft |-> 0, submitted |-> 0, approved |-> 0, rejected |-> 0, void |-> 0,
    totalPaidMinutes |-> 0, totalPaidMinutesRounded |-> 0, totalBreakMinutes |-> 0 ]

\* no totals in the answer
NoTotals == [ok |-> FALSE, error |-> "none"]

\* what a call answers: its kind ("ok" or the typed failure), the counts of a
\* bulk call, the _ids of the documents returned, the totals getTimeEntry adds
\* to its document, the body of a summary
Response(kind) ==
  [kind |-> kind, matched |-> 0, modified |-> 0, rows |-> {}, totals |-> NoTotals,
   summary |-> NoSummary]

\* one request served to completion with no other request interleaved
CreateManualTimeEntry(businessId, actor, targetUserId, workDate, startTime, endTime, breakMinutes) ==
  LET c == createCheck(entries, businessId, actor, targetUserId, workDate, startTime,
                       endTime, breakMinutes)
      doc == createDoc(businessId, actor, targetUserId, workDate, startTime, endTime,
                       breakMinutes)
  IN  /\ IF c # "ok"
           THEN resp' = Response(c) /\ UNCHANGED entries
         ELSE IF ~validEntry(doc)
           THEN resp' = Response("ValidationError") /\ UNCHANGED entries
         ELSE /\ entries' = Append(entries, doc)
              /\ resp' = [Response("ok") EXCEPT !.rows = {Len(entries) + 1}]
      /\ UNCHANGED <<shifts, inflight>>

----------------------------------------------------------------------------
(* the single-entry handlers: each loads the entry with findById, runs its   *)
(* checks on the loaded document, changes it and saves it                    *)

\* findById + requireSameBusiness + ensureManual, common to the handlers
loadCheck(docs, businessId, entryId) ==
  IF entryId \notin 1..Len(docs) THEN "NotFound"
  ELSE IF ~requireSameBusiness(businessId, docs[entryId].business) THEN "Forbidden"
  ELSE IF ~ensureManual(docs[entryId]) THEN "NotFound"
  ELSE "ok"

\* a ?? b for strings
Coalesce(a, b) == IF a = UNDEF THEN b ELSE a

\* update with the status precondition tested before the ownership rule
updateCheck_StatusFirst(docs, businessId, actor, entryId, workDate, startTime, endTime, breakMinutes) ==
  IF loadCheck(docs, businessId, entryId) # "ok" THEN loadCheck(docs, businessId, entryId)
  ELSE
    LET entry == docs[entryId]
        nextWorkDate == IF workDate = NULL THEN entry.workDate ELSE workDate
        nextStart == Coalesce(startTime, entry.startTime)
        nextEnd == Coalesce(endTime, entry.endTime)
        nextBreak == IF breakMinutes = {} THEN {entry.breakMinutes} ELSE breakMinutes
    IN  IF ~isEditableStatus(entry.status) THEN "Conflict"
        ELSE IF ~isManagerLike(actor.role) /\ entry.user # actor._id THEN "Forbidden"
        ELSE IF ~computeManualTotals(nextStart, nextEnd, nextBreak, 0, "nearest").ok
          THEN "BadRequest"
        ELSE ensureNoManualOverlap(docs, businessId, entry.user, nextWorkDate,
                                   nextStart, nextEnd, entryId)

updateCheck(docs, businessId, actor, entryId, workDate, startTime, endTime, breakMinutes) ==
  IF loadCheck(docs, businessId, entryId) # "ok" THEN loadCheck(docs, businessId, entryId)
  ELSE
    LET entry == docs[entryId]
        nextWorkDate == IF workDate = NULL THEN entry.workDate ELSE workDate
        nextStart == Coalesce(startTime, entry.startTime)
        nextEnd == Coalesce(endTime, entry.endTime)
        nextBreak == IF breakMinutes = {} THEN {entry.breakMinutes} ELSE breakMinutes
    IN  IF ~isManagerLike(actor.role) /\ entry.user # actor._id THEN "Forbidden"
        ELSE IF ~isEditableStatus(entry.status) THEN "Conflict"
        ELSE IF ~computeManualTotals(nextStart, nextEnd, nextBreak, 0, "nearest").ok
          THEN "BadRequest"
        ELSE ensureNoManualOverlap(docs, businessId, entry.user, nextWorkDate,
                                   nextStart, nextEnd, entryId)

\* an update that puts the edited entry back to draft and clears the reason
updateDoc_BackToDraft(entry, actor, workDate, startTime, endTime, breakMinutes) ==
  [entry EXCEPT
     !.workDate = IF workDate = NULL THEN entry.workDate ELSE workDate,
     !.startTime = Coalesce(startTime, entry.startTime),
     !.endTime = Coalesce(endTime, entry.endTime),
     !.breakMinutes = IF breakMinutes = {} THEN entry.breakMinutes
                      ELSE NumberOr0(breakMinutes),
     !.status = "draft",
     !.rejectionReason = << >>,
     !.updatedBy = actor._id]

\* the entry as changed by update (lines 198-206)
updateDoc(entry, actor, workDate, startTime, endTime, breakMinutes) ==
  [entry EXCEPT
     !.workDate = IF workDate = NULL THEN entry.workDate ELSE workDate,
     !.startTime = Coalesce(startTime, entry.startTime),
     !.endTime = Coalesce(endTime, entry.endTime),
     !.breakMinutes = IF breakMinutes = {} THEN entry.breakMinutes
                      ELSE NumberOr0(breakMinutes),
     !.updatedBy = actor._id]

\* submit without its status precondition
submitCheck_NoStatusGuard(docs, businessId, actor, entryId) ==
  IF loadCheck(docs, businessId, entryId) # "ok" THEN loadCheck(docs, businessId, entryId)
  ELSE
    LET entry == docs[entryId]
    IN  IF ~isManagerLike(actor.role) /\ entry.user # actor._id THEN "Forbidden"
        ELSE IF ~computeManualTotals(entry.startTime, entry.endTime,
                                     {entry.breakMinutes}, 0, "nearest").ok
          THEN "BadRequest"
        ELSE "ok"

submitCheck(docs, businessId, actor, entryId) ==
  IF loadCheck(docs, businessId, entryId) # "ok" THEN loadCheck(docs, businessId, entryId)
  ELSE
    LET entry == docs[entryId]
    IN  IF ~isManagerLike(actor.role) /\ entry.user # actor._id THEN "Forbidden"
        ELSE IF ~isEditableStatus(entry.status) THEN "Conflict"
        ELSE IF ~computeManualTotals(entry.startTime, entry.endTime,
                                     {entry.breakMinutes}, 0, "nearest").ok
          THEN "BadRequest"
        ELSE "ok"

\* a submit that does not stamp the entry
submitDoc_NoTimestamp(entry, actor, now) ==
  [entry EXCEPT !.status = "submitted", !.updatedBy = actor._id]

submitDoc(entry, actor, now) ==
  [entry EXCEPT !.status = "submitted", !.submittedAt = now, !.updatedBy = actor._id]

\* approve without its status precondition
approveCheck_NoStatusGuard(docs, businessId, actor, entryId) ==
  IF ~isManagerLike(actor.role) THEN "Forbidden"
  ELSE loadCheck(docs, businessId, entryId)

approveCheck(docs, businessId, actor, entryId) ==
  IF ~isManagerLike(actor.role) THEN "Forbidden"
  ELSE IF loadCheck(docs, businessId, entryId) # "ok"
    THEN loadCheck(docs, businessId, entryId)
  ELSE IF docs[entryId].status # "submitted" THEN "Conflict"
  ELSE "ok"

approveDoc(entry, actor, now) ==
  [entry EXCEPT !.status = "approved", !.approvedBy = actor._id,
                !.approvedAt = now, !.updatedBy = actor._id]

RECURSIVE TrimLeft(_)
TrimLeft(s) == IF s # << >> /\ Head(s) = " " THEN TrimLeft(Tail(s)) ELSE s

RECURSIVE TrimRight(_)
TrimRight(s) ==
  IF s # << >> /\ s[Len(s)] = " " THEN TrimRight(SubSeq(s, 1, Len(s) - 1)) ELSE s

\* String(reason).trim()
Trim(s) == TrimRight(TrimLeft(s))

\* the length rule on the reason as given, not trimmed
badReason_Untrimmed(reason) == reason = << >> \/ Len(reason) < 2

\* !reason || String(reason).trim().length < 2
badReason(reason) == reason = << >> \/ Len(Trim(reason)) < 2

\* reject open to every role
rejectCheck_NoRoleGuard(docs, businessId, actor, entryId, reason) ==
  IF badReason(reason) THEN "BadRequest"
  ELSE IF loadCheck(docs, businessId, entryId) # "ok"
    THEN loadCheck(docs, businessId, entryId)
  ELSE IF docs[entryId].status # "submitted" THEN "Conflict"
  ELSE "ok"

rejectCheck(docs, businessId, actor, entryId, reason) ==
  IF ~isManagerLike(actor.role) THEN "Forbidden"
  ELSE IF badReason(reason) THEN "BadRequest"
  ELSE IF loadCheck(docs, businessId, entryId) # "ok"
    THEN loadCheck(docs, businessId, entryId)
  ELSE IF docs[entryId].status # "submitted" THEN "Conflict"
  ELSE "ok"

rejectDoc(entry, actor, reason) ==
  [entry EXCEPT !.status = "rejected", !.rejectionReason = Trim(reason),
                !.updatedBy = actor._id]

\* void with no status rule for employees
voidCheck_OwnAnyStatus(docs, businessId, actor, entryId) ==
  IF loadCheck(docs, businessId, entryId) # "ok" THEN loadCheck(docs, businessId, entryId)
  ELSE IF ~isManagerLike(actor.role) /\ docs[entryId].user # actor._id THEN "Forbidden"
  ELSE "ok"

\* void with no ownership rule for employees
voidCheck_NoOwnership(docs, businessId, actor, entryId) ==
  IF loadCheck(docs, businessId, entryId) # "ok" THEN loadCheck(docs, businessId, entryId)
  ELSE IF ~isManagerLike(actor.role) /\ ~isEditableStatus(docs[entryId].status)
    THEN "Conflict"
  ELSE "ok"

voidCheck(docs, businessId, actor, entryId) ==
  IF loadCheck(docs, businessId, entryId) # "ok" THEN loadCheck(docs, businessId, entryId)
  ELSE
    LET entry == docs[entryId]
    IN  IF ~isManagerLike(actor.role) /\ entry.user # actor._id THEN "Forbidden"
        ELSE IF ~isManagerLike(actor.role) /\ ~isEditableStatus(entry.status)
          THEN "Conflict"
        ELSE "ok"

voidDoc(entry, actor) ==
  [entry EXCEPT !.status = "void", !.updatedBy = actor._id]

\* a handler that assigns and saves before its last check throws Conflict
SaveOrFail_SaveBeforeConflict(check, entryId, doc) ==
  /\ IF check = "Conflict"
       THEN /\ entries' = [entries EXCEPT ![entryId] = doc]
            /\ resp' = Response("Conflict")
     ELSE IF check # "ok"
       THEN resp' = Response(check) /\ UNCHANGED entries
     ELSE IF ~validEntry(doc)
       THEN resp' = Response("ValidationError") /\ UNCHANGED entries
     ELSE /\ entries' = [entries EXCEPT ![entryId] = doc]
          /\ resp' = [Response("ok") EXCEPT !.rows = {entryId}]
  /\ UNCHANGED <<shifts, inflight>>

\* the end of a handler that ran alone: the failure of its checks returned and
\* nothing written, or entry.save(): the changed document validated and written
\* back (doc is read only when the checks passed, so the entry exists)
SaveOrFail(check, entryId, doc) ==
  /\ IF check # "ok"
       THEN resp' = Response(check) /\ UNCHANGED entries
     ELSE IF ~validEntry(doc)
       THEN resp' = Response("ValidationError") /\ UNCHANGED entries
     ELSE /\ entries' = [entries EXCEPT ![entryId] = doc]
          /\ resp' = [Response("ok") EXCEPT !.rows = {entryId}]
  /\ UNCHANGED <<shifts, inflight>>

UpdateManualTimeEntry(businessId, actor, entryId, workDate, startTime, endTime, breakMinutes) ==
  LET c == updateCheck(entries, businessId, actor, entryId, workDate, startTime,
                       endTime, breakMinutes)
  IN  SaveOrFail(c, entryId,
                 updateDoc(entries[entryId], actor, workDate, startTime, endTime,
                           breakMinutes))

SubmitTimeEntry(businessId, actor, entryId, now) ==
  LET c == submitCheck(entries, businessId, actor, entryId)
  IN  SaveOrFail(c, entryId, submitDoc(entries[entryId], actor, now))

ApproveTimeEntry(businessId, actor, entryId, now) ==
  LET c == approveCheck(entries, businessId, actor, entryId)
  IN  SaveOrFail(c, entryId, approveDoc(entries[entryId], actor, now))

RejectTimeEntry(businessId, actor, entryId, reason) ==
  LET c == rejectCheck(entries, businessId, actor, entryId, reason)
  IN  SaveOrFail(c, entryId, rejectDoc(entries[entryId], actor, reason))

VoidTimeEntry(businessId, actor, entryId) ==
  LET c == voidCheck(entries, businessId, actor, entryId)
  IN  SaveOrFail(c, entryId, voidDoc(entries[entryId], actor))

----------------------------------------------------------------------------
(* the bulk handlers: one conditional updateMany, no per-document load *)

Range(seq) == { seq[i] : i \in 1..Len(seq) }

\* the filter without its status condition
bulkMatch_AnyStatus(docs, businessId, entryIds) ==
  { i \in 1..Len(docs) :
      /\ i \in Range(entryIds)
      /\ docs[i].business = businessId
      /\ docs[i].entryType = "manual" }

\* a filter that takes every entry not decided yet
bulkMatch_NotYetDecided(docs, businessId, entryIds) ==
  { i \in 1..Len(docs) :
      /\ i \in Range(entryIds)
      /\ docs[i].business = businessId
      /\ docs[i].entryType = "manual"
      /\ docs[i].status \in {"draft", "submitted"} }

\* the filter without its business condition
bulkMatch_AnyTenant(docs, businessId, entryIds) ==
  { i \in 1..Len(docs) :
      /\ i \in Range(entryIds)
      /\ docs[i].entryType = "manual"
      /\ docs[i].status = "submitted" }

\* the filter of updateMany (lines 381-386 and 422-427)
bulkMatch(docs, businessId, entryIds) ==
  { i \in 1..Len(docs) :
      /\ i \in Range(entryIds)
      /\ docs[i].business = businessId
      /\ docs[i].entryType = "manual"
      /\ docs[i].status = "submitted" }

RECURSIVE CountListed(_, _)
CountListed(entryIds, S) ==
  IF entryIds = << >> THEN 0
  ELSE (IF Head(entryIds) \in S THEN 1 ELSE 0) + CountListed(Tail(entryIds), S)

\* a count of the listed ids that match, an id listed twice counted twice
matchedCount_PerListedId(docs, businessId, entryIds) ==
  CountListed(entryIds, bulkMatch(docs, businessId, entryIds))

\* result.matchedCount: the number of documents the filter selects; each gets
\* a status it did not have, so result.modifiedCount is the same number
matchedCount(docs, businessId, entryIds) ==
  Cardinality(bulkMatch(docs, businessId, entryIds))

\* the documents of the find that follows the update (lines 397-401, 437-441)
bulkUpdated(docs, businessId, entryIds) ==
  { i \in 1..Len(docs) :
      /\ i \in Range(entryIds)
      /\ docs[i].business = businessId
      /\ docs[i].entryType = "manual" }

bulkApproveSet(entry, actor, approvedAt) ==
  [entry EXCEPT !.status = "approved", !.approvedBy = actor._id,
                !.approvedAt = approvedAt, !.updatedBy = actor._id]

bulkRejectSet(entry, actor, rejectionReason) ==
  [entry EXCEPT !.status = "rejected", !.rejectionReason = rejectionReason,
                !.updatedBy = actor._id]

BulkApproveTimeEntries(businessId, actor, entryIds, now) ==
  /\ IF ~isManagerLike(actor.role)
       THEN resp' = Response("Forbidden") /\ UNCHANGED entries
     ELSE IF Len(entryIds) = 0
       THEN resp' = Response("BadRequest") /\ UNCHANGED entries
     ELSE
       LET m == bulkMatch(entries, businessId, entryIds)
       IN  /\ resp' = [Response("ok") EXCEPT
                         !.matched = matchedCount(entries, businessId, entryIds),
                         !.modified = matchedCount(entries, businessId, entryIds),
                         !.rows = bulkUpdated(entries, businessId, entryIds)]
           /\ entries' = [i \in 1..Len(entries) |->
                            IF i \in m THEN bulkApproveSet(entries[i], actor, now)
                            ELSE entries[i]]
  /\ UNCHANGED <<shifts, inflight>>

BulkRejectTimeEntries(businessId, actor, entryIds, reason) ==
  /\ IF ~isManagerLike(actor.role)
       THEN resp' = Response("Forbidden") /\ UNCHANGED entries
     ELSE IF Len(entryIds) = 0
       THEN resp' = Response("BadRequest") /\ UNCHANGED entries
     ELSE IF badReason(reason)
       THEN resp' = Response("BadRequest") /\ UNCHANGED entries
     ELSE
       LET m == bulkMatch(entries, businessId, entryIds)
       IN  /\ resp' = [Response("ok") EXCEPT
                         !.matched = matchedCount(entries, businessId, entryIds),
                         !.modified = matchedCount(entries, businessId, entryIds),
                         !.rows = bulkUpdated(entries, businessId, entryIds)]
           /\ entries' = [i \in 1..Len(entries) |->
                            IF i \in m THEN bulkRejectSet(entries[i], actor, Trim(reason))
                            ELSE entries[i]]
  /\ UNCHANGED <<shifts, inflight>>

----------------------------------------------------------------------------
(* the read handlers: they answer with documents of the collection and write *)
(* nothing                                                                   *)

\* the place of a YYYY-MM-DD string in the lexicographic order of strings,
\* which $gte and $lte compare by
DateRank(d) ==
  CASE d = "2024-01-04" -> 4 [] d = "2024-01-05" -> 5 [] d = "2024-01-06" -> 6

\* the workDate conditions of a query; a bound that is not given adds none,
\* and a document with no workDate matches no range condition
inRange(workDate, from, to) ==
  /\ from # NULL => workDate # NULL /\ DateRank(workDate) >= DateRank(from)
  /\ to # NULL => workDate # NULL /\ DateRank(workDate) <= DateRank(to)

\* the query of listPendingTimeEntries (lines 357-365)
pendingRows(docs, businessId, from, to, userId) ==
  { i \in 1..Len(docs) :
      /\ docs[i].business = businessId
      /\ docs[i].entryType = "manual"
      /\ docs[i].status = "submitted"
      /\ userId # NULL => docs[i].user = userId
      /\ inRange(docs[i].workDate, from, to) }

ListPendingTimeEntries(businessId, actor, from, to, userId) ==
  /\ IF ~isManagerLike(actor.role)
       THEN resp' = Response("Forbidden")
     ELSE resp' = [Response("ok") EXCEPT
                     !.rows = pendingRows(entries, businessId, from, to, userId)]
  /\ UNCHANGED <<entries, shifts, inflight>>

\* mine ? actor._id : userId
filterUserId(actor, userId, mine) == IF mine THEN actor._id ELSE userId

\* the guard of listTimeEntries (lines 302-304)
listCheck(actor, userId, mine) ==
  IF /\ ~isManagerLike(actor.role)
     /\ ~mine
     /\ filterUserId(actor, userId, mine) # NULL
     /\ filterUserId(actor, userId, mine) # actor._id
    THEN "Forbidden"
  ELSE "ok"

\* the query of listTimeEntries (lines 306-313) and, with no status, of
\* getTimeEntrySummary (lines 461-467)
listRows(docs, businessId, userId, from, to, status) ==
  { i \in 1..Len(docs) :
      /\ docs[i].business = businessId
      /\ docs[i].entryType = "manual"
      /\ userId # NULL => docs[i].user = userId
      /\ status # NULL => docs[i].status = status
      /\ inRange(docs[i].workDate, from, to) }

ListTimeEntries(businessId, actor, userId, from, to, status, mine) ==
  /\ IF listCheck(actor, userId, mine) # "ok"
       THEN resp' = Response(listCheck(actor, userId, mine))
     ELSE resp' = [Response("ok") EXCEPT
                     !.rows = listRows(entries, businessId,
                                       filterUserId(actor, userId, mine), from, to,
                                       status)]
  /\ UNCHANGED <<entries, shifts, inflight>>

\* settings.timeTracking.roundingMinutes of the Business documents, 0 by default
roundingMinutesOf(businessId) == IF businessId = "B1" THEN 15 ELSE 0

\* the checks of getTimeEntry (lines 325-336)
getCheck(docs, businessId, actor, entryId) ==
  IF entryId \notin 1..Len(docs) THEN "NotFound"
  ELSE IF ~requireSameBusiness(businessId, docs[entryId].business) THEN "Forbidden"
  ELSE IF docs[entryId].entryType # "manual" THEN "NotFound"
  ELSE IF ~isManagerLike(actor.role) /\ docs[entryId].user # actor._id THEN "Forbidden"
  ELSE "ok"

GetTimeEntry(businessId, actor, entryId) ==
  /\ IF getCheck(entries, businessId, actor, entryId) # "ok"
       THEN resp' = Response(getCheck(entries, businessId, actor, entryId))
     ELSE resp' = [Response("ok") EXCEPT
                     !.rows = {entryId},
                     !.totals = computeManualTotals(
                                  entries[entryId].startTime, entries[entryId].endTime,
                                  {entries[entryId].breakMinutes},
                                  roundingMinutesOf(businessId), "nearest")]
  /\ UNCHANGED <<entries, shifts, inflight>>

\* the guard of getTimeEntrySummary (lines 457-459)
summaryCheck(actor, userId, mine) ==
  IF ~isManagerLike(actor.role)
     /\ (~mine \/ (filterUserId(actor, userId, mine) # NULL
                    /\ filterUserId(actor, userId, mine) # actor._id))
    THEN "Forbidden"
  ELSE "ok"

\* the loop with the count of the status inside the try block
RECURSIVE foldSummary_CountInsideTry(_, _, _)
foldSummary_CountInsideTry(docs, rows, roundingMinutes) ==
  IF rows = {} THEN NoSummary
  ELSE
    LET i == CHOOSE r \in rows : TRUE
        e == docs[i]
        rest == foldSummary_CountInsideTry(docs, rows \ {i}, roundingMinutes)
        totals == computeManualTotals(e.startTime, e.endTime, {e.breakMinutes},
                                      roundingMinutes, "nearest")
    IN  IF ~totals.ok THEN rest
        ELSE [rest EXCEPT
                ![e.status] = @ + 1,
                !.totalPaidMinutes = @ + totals.paidMinutes,
                !.totalPaidMinutesRounded = @ + totals.paidMinutesRounded,
                !.totalBreakMinutes = @ + totals.breakMinutes]

\* the loop of lines 479-493 over the selected documents
RECURSIVE foldSummary(_, _, _)
foldSummary(docs, rows, roundingMinutes) ==
  IF rows = {} THEN NoSummary
  ELSE
    LET i == CHOOSE r \in rows : TRUE
        e == docs[i]
        rest == foldSummary(docs, rows \ {i}, roundingMinutes)
        counted == IF e.status \in {"draft", "submitted", "approved", "rejected", "void"}
                     THEN [rest EXCEPT ![e.status] = @ + 1]
                   ELSE rest
        totals == computeManualTotals(e.startTime, e.endTime, {e.breakMinutes},
                                      roundingMinutes, "nearest")
    IN  IF ~totals.ok THEN counted
        ELSE [counted EXCEPT
                !.totalPaidMinutes = @ + totals.paidMinutes,
                !.totalPaidMinutesRounded = @ + totals.paidMinutesRounded,
                !.totalBreakMinutes = @ + totals.breakMinutes]

GetTimeEntrySummary(businessId, actor, from, to, mine, userId) ==
  /\ IF summaryCheck(actor, userId, mine) # "ok"
       THEN resp' = Response(summaryCheck(actor, userId, mine))
     ELSE resp' = [Response("ok") EXCEPT
                     !.summary = foldSummary(
                                   entries,
                                   listRows(entries, businessId,
                                            filterUserId(actor, userId, mine), from, to,
                                            NULL),
                                   roundingMinutesOf(businessId))]
  /\ UNCHANGED <<entries, shifts, inflight>>

----------------------------------------------------------------------------
(* services/shiftService.js.  A Date is its time value, here the hour of one *)
(* day; roleTag, notes and location are payload that no guard reads.         *)

\* an argument that was not passed (undefined), where an id is expected;
\* NULL is null
NOARG == "undefined"

\* new Date(d).getTime() of parseDate; -1 stands for NaN, the time value of a
\* string that is no date and of undefined
parseDate(d) ==
  CASE d = "2024-01-05T09:00Z" -> 9
    [] d = "2024-01-05T11:00Z" -> 11
    [] d = "2024-01-05T12:00Z" -> 12
    [] d = "2024-01-05T13:00Z" -> 13
    [] OTHER -> -1

\* the schema of Shift and its pre("validate") hook
validShift(doc) ==
  /\ doc.business # NULL
  /\ doc.endAt > doc.startAt
  /\ doc.status \in {"draft", "published", "canceled"}

\* an overlap query that looks at published shifts only
shiftOverlapScope_PublishedOnly(docs, businessId, userId, excludeShiftId) ==
  { i \in 1..Len(docs) :
      /\ docs[i].business = businessId
      /\ docs[i].user = userId
      /\ docs[i].status = "published"
      /\ i # excludeShiftId }

\* the documents the overlap query of shifts selects; excludeShiftId = 0
\* excludes nothing
shiftOverlapScope(docs, businessId, userId, excludeShiftId) ==
  { i \in 1..Len(docs) :
      /\ docs[i].business = businessId
      /\ docs[i].user = userId
      /\ docs[i].status # "canceled"
      /\ i # excludeShiftId }

\* the overlap query run for open shifts as well
ensureNoShiftOverlap_OpenToo(docs, businessId, userId, startAt, endAt, excludeShiftId) ==
  IF \E i \in shiftOverlapScope(docs, businessId, userId, excludeShiftId) :
       docs[i].startAt < endAt /\ docs[i].endAt > startAt
    THEN "Conflict"
  ELSE "ok"

\* "ok", or the kind of failure thrown
ensureNoShiftOverlap(docs, businessId, userId, startAt, endAt, excludeShiftId) ==
  IF userId = NULL THEN "ok"
  ELSE IF \E i \in shiftOverlapScope(docs, businessId, userId, excludeShiftId) :
            docs[i].startAt < endAt /\ docs[i].endAt > startAt
    THEN "Conflict"
  ELSE "ok"

\* userId || null
OrNull(userId) == IF userId = NOARG THEN NULL ELSE userId

createShiftCheck(docs, businessId, actor, userId, startAt, endAt) ==
  IF ~isManagerLike(actor.role) THEN "Forbidden"
  ELSE IF parseDate(startAt) < 0 \/ parseDate(endAt) < 0 THEN "BadRequest"
  ELSE IF parseDate(endAt) <= parseDate(startAt) THEN "BadRequest"
  ELSE ensureNoShiftOverlap(docs, businessId, userId, parseDate(startAt),
                            parseDate(endAt), 0)

\* the document handed to Shift.create (lines 559-570)
createShiftDoc(businessId, actor, userId, startAt, endAt) ==
  [ business |-> businessId, user |-> OrNull(userId), startAt |-> parseDate(startAt),
    endAt |-> parseDate(endAt), status |-> "draft", publishedAt |-> NULL,
    createdBy |-> actor._id, updatedBy |-> actor._id ]

CreateShift(businessId, actor, userId, startAt, endAt) ==
  LET c == createShiftCheck(shifts, businessId, actor, userId, startAt, endAt)
      doc == createShiftDoc(businessId, actor, userId, startAt, endAt)
  IN  /\ IF c # "ok"
           THEN resp' = Response(c) /\ UNCHANGED shifts
         ELSE IF ~validShift(doc)
           THEN resp' = Response("ValidationError") /\ UNCHANGED shifts
         ELSE /\ shifts' = Append(shifts, doc)
              /\ resp' = [Response("ok") EXCEPT !.rows = {Len(shifts) + 1}]
      /\ UNCHANGED <<entries, inflight>>

\* the handlers that change a shift open to every role
shiftLoadCheck_AnyRole(docs, businessId, actor, shiftId) ==
  IF shiftId \notin 1..Len(docs) THEN "NotFound"
  ELSE IF ~requireSameBusiness(businessId, docs[shiftId].business) THEN "Forbidden"
  ELSE "ok"

\* the role check, findById and requireSameBusiness common to the handlers
\* that change a shift
shiftLoadCheck(docs, businessId, actor, shiftId) ==
  IF ~isManagerLike(actor.role) THEN "Forbidden"
  ELSE IF shiftId \notin 1..Len(docs) THEN "NotFound"
  ELSE IF ~requireSameBusiness(businessId, docs[shiftId].business) THEN "Forbidden"
  ELSE "ok"

\* startAt ? parseDate(startAt) : shift.startAt
nextTime(given, stored) == IF given = NULL THEN stored ELSE parseDate(given)

\* userId !== undefined ? (userId || null) : shift.user
nextUser(userId, stored) == IF userId = NOARG THEN stored ELSE userId

\* an update that does not look at the status of the shift
updateShiftCheck_CanceledToo(docs, businessId, actor, shiftId, userId, startAt, endAt) ==
  IF shiftLoadCheck(docs, businessId, actor, shiftId) # "ok"
    THEN shiftLoadCheck(docs, businessId, actor, shiftId)
  ELSE
    LET shift == docs[shiftId]
        nextStart == nextTime(startAt, shift.startAt)
        nextEnd == nextTime(endAt, shift.endAt)
    IN  IF nextStart < 0 \/ nextEnd < 0 THEN "BadRequest"
        ELSE IF nextEnd <= nextStart THEN "BadRequest"
        ELSE ensureNoShiftOverlap(docs, businessId, nextUser(userId, shift.user),
                                  nextStart, nextEnd, shiftId)

updateShiftCheck(docs, businessId, actor, shiftId, userId, startAt, endAt) ==
  IF shiftLoadCheck(docs, businessId, actor, shiftId) # "ok"
    THEN shiftLoadCheck(docs, businessId, actor, shiftId)
  ELSE
    LET shift == docs[shiftId]
        nextStart == nextTime(startAt, shift.startAt)
        nextEnd == nextTime(endAt, shift.endAt)
    IN  IF shift.status = "canceled" THEN "Conflict"
        ELSE IF nextStart < 0 \/ nextEnd < 0 THEN "BadRequest"
        ELSE IF nextEnd <= nextStart THEN "BadRequest"
        ELSE ensureNoShiftOverlap(docs, businessId, nextUser(userId, shift.user),
                                  nextStart, nextEnd, shiftId)

updateShiftDoc(shift, actor, userId, startAt, endAt) ==
  [shift EXCEPT !.startAt = nextTime(startAt, shift.startAt),
                !.endAt = nextTime(endAt, shift.endAt),
                !.user = nextUser(userId, shift.user),
                !.updatedBy = actor._id]

\* publish and unassign open to canceled shifts
liveShiftCheck_CanceledToo(docs, businessId, actor, shiftId) ==
  shiftLoadCheck(docs, businessId, actor, shiftId)

\* the checks of publish and unassign: the shift is loaded and not canceled
liveShiftCheck(docs, businessId, actor, shiftId) ==
  IF shiftLoadCheck(docs, businessId, actor, shiftId) # "ok"
    THEN shiftLoadCheck(docs, businessId, actor, shiftId)
  ELSE IF docs[shiftId].status = "canceled" THEN "Conflict"
  ELSE "ok"

publishShiftDoc(shift, actor, now) ==
  [shift EXCEPT !.status = "published", !.publishedAt = now, !.updatedBy = actor._id]

\* a cancel that saves the shift whatever its status
cancelShiftDoc_AlwaysSave(shift, actor) ==
  [shift EXCEPT !.status = "canceled", !.updatedBy = actor._id]

cancelShiftDoc(shift, actor) ==
  IF shift.status = "canceled" THEN shift
  ELSE [shift EXCEPT !.status = "canceled", !.updatedBy = actor._id]

assignShiftCheck(docs, businessId, actor, shiftId, userId) ==
  IF ~isManagerLike(actor.role) THEN "Forbidden"
  ELSE IF userId = NULL \/ userId = NOARG THEN "BadRequest"
  ELSE IF liveShiftCheck(docs, businessId, actor, shiftId) # "ok"
    THEN liveShiftCheck(docs, businessId, actor, shiftId)
  ELSE ensureNoShiftOverlap(docs, businessId, userId, docs[shiftId].startAt,
                            docs[shiftId].endAt, shiftId)

assignShiftDoc(shift, actor, userId) ==
  [shift EXCEPT !.user = userId, !.updatedBy = actor._id]

unassignShiftDoc(shift, actor) ==
  [shift EXCEPT !.user = NULL, !.updatedBy = actor._id]

\* the end of a shift handler: the failure of its checks returned and nothing
\* written, or shift.save() (doc is read only when the checks passed)
SaveShiftOrFail(check, shiftId, doc) ==
  /\ IF check # "ok"
       THEN resp' = Response(check) /\ UNCHANGED shifts
     ELSE IF ~validShift(doc)
       THEN resp' = Response("ValidationError") /\ UNCHANGED shifts
     ELSE /\ shifts' = [shifts EXCEPT ![shiftId] = doc]
          /\ resp' = [Response("ok") EXCEPT !.rows = {shiftId}]
  /\ UNCHANGED <<entries, inflight>>

UpdateShift(businessId, actor, shiftId, userId, startAt, endAt) ==
  SaveShiftOrFail(updateShiftCheck(shifts, businessId, actor, shiftId, userId, startAt,
                                   endAt),
                  shiftId, updateShiftDoc(shifts[shiftId], actor, userId, startAt, endAt))

PublishShift(businessId, actor, shiftId, now) ==
  SaveShiftOrFail(liveShiftCheck(shifts, businessId, actor, shiftId), shiftId,
                  publishShiftDoc(shifts[shiftId], actor, now))

CancelShift(businessId, actor, shiftId) ==
  SaveShiftOrFail(shiftLoadCheck(shifts, businessId, actor, shiftId), shiftId,
                  cancelShiftDoc(shifts[shiftId], actor))

AssignShift(businessId, actor, shiftId, userId) ==
  SaveShiftOrFail(assignShiftCheck(shifts, businessId, actor, shiftId, userId), shiftId,
                  assignShiftDoc(shifts[shiftId], actor, userId))

UnassignShift(businessId, actor, shiftId) ==
  SaveShiftOrFail(liveShiftCheck(shifts, businessId, actor, shiftId), shiftId,
                  unassignShiftDoc(shifts[shiftId], actor))

\* a lookup by _id and business together, which does not find the shift of
\* another tenant
getShiftCheck_TenantScopedFind(docs, businessId, actor, shiftId) ==
  IF shiftId \notin 1..Len(docs) THEN "NotFound"
  ELSE IF ~requireSameBusiness(businessId, docs[shiftId].business) THEN "NotFound"
  ELSE IF /\ ~isManagerLike(actor.role)
          /\ docs[shiftId].user # actor._id
          /\ ~(docs[shiftId].user = NULL /\ docs[shiftId].status = "published")
    THEN "Forbidden"
  ELSE "ok"

\* the checks of getShift (lines 699-711)
getShiftCheck(docs, businessId, actor, shiftId) ==
  IF shiftId \notin 1..Len(docs) THEN "NotFound"
  ELSE IF ~requireSameBusiness(businessId, docs[shiftId].business) THEN "Forbidden"
  ELSE IF /\ ~isManagerLike(actor.role)
          /\ docs[shiftId].user # actor._id
          /\ ~(docs[shiftId].user = NULL /\ docs[shiftId].status = "published")
    THEN "Forbidden"
  ELSE "ok"

GetShift(businessId, actor, shiftId) ==
  /\ IF getShiftCheck(shifts, businessId, actor, shiftId) # "ok"
       THEN resp' = Response(getShiftCheck(shifts, businessId, actor, shiftId))
     ELSE resp' = [Response("ok") EXCEPT !.rows = {shiftId}]
  /\ UNCHANGED <<entries, shifts, inflight>>

\* a query that shows an employee the open shifts of every status
shiftRows_OpenAnyStatus(docs, businessId, actor, from, to, userId, status, mine, includeOpen) ==
  { i \in 1..Len(docs) :
      /\ docs[i].business = businessId
      /\ IF ~isManagerLike(actor.role)
           THEN \/ docs[i].user = actor._id
                \/ includeOpen /\ docs[i].user = NULL
         ELSE /\ filterUserId(actor, userId, mine) # NULL
                   => docs[i].user = filterUserId(actor, userId, mine)
              /\ status # NULL => docs[i].status = status
      /\ from # NULL => docs[i].startAt >= parseDate(from)
      /\ to # NULL => docs[i].startAt <= parseDate(to) }

\* the query of listShifts (lines 717-734); from and to are time values, NULL
\* when not given
shiftRows(docs, businessId, actor, from, to, userId, status, mine, includeOpen) ==
  { i \in 1..Len(docs) :
      /\ docs[i].business = businessId
      /\ IF ~isManagerLike(actor.role)
           THEN \/ docs[i].user = actor._id
                \/ includeOpen /\ docs[i].user = NULL /\ docs[i].status = "published"
         ELSE /\ filterUserId(actor, userId, mine) # NULL
                   => docs[i].user = filterUserId(actor, userId, mine)
              /\ status # NULL => docs[i].status = status
      /\ from # NULL => docs[i].startAt >= parseDate(from)
      /\ to # NULL => docs[i].startAt <= parseDate(to) }

ListShifts(businessId, actor, from, to, userId, status, mine, includeOpen) ==
  /\ resp' = [Response("ok") EXCEPT
                !.rows = shiftRows(shifts, businessId, actor, from, to, userId, status,
                                   mine, includeOpen)]
  /\ UNCHANGED <<entries, shifts, inflight>>

----------------------------------------------------------------------------
(* Inputs of the requests *)

T0900 == <<"0", "9", ":", "0", "0">>
T1100 == <<"1", "1", ":", "0", "0">>
T1200 == <<"1", "2", ":", "0", "0">>
T1300 == <<"1", "3", ":", "0", "0">>
\* not zero-padded: rejected by TIME_REGEX
T900 == <<"9", ":", "0", "0">>

ReasonOk == <<" ", "o", "k", " ">>
ReasonShort == <<" ", "x", " ">>

Body(workDate, startTime, endTime, breakMinutes) ==
  [workDate |-> workDate, startTime |-> startTime, endTime |-> endTime,
   breakMinutes |-> breakMinutes]

For(target, body) ==
  [target |-> target, workDate |-> body.workDate, startTime |-> body.startTime,
   endTime |-> body.endTime, breakMinutes |-> body.breakMinutes]

\* a legacy document of the other entry type, stored before manual entries
LegacyClockEntry ==
  [ business |-> "B1", user |-> "e1", entryType |-> "clock", workDate |-> NULL,
    startTime |-> << >>, endTime |-> << >>, breakMinutes |-> 0, status |-> "open",
    submittedAt |-> NULL, approvedBy |-> NULL, approvedAt |-> NULL,
    rejectionReason |-> << >>, createdBy |-> "e1", updatedBy |-> "e1" ]

InitEntries == <<LegacyClockEntry>>

\* the tenant id of a request: req.businessId = String(req.user.business)
Tenant(a) == UserTable[a].business

Dates == {"t1"}

\* a request slot with no call in flight
Idle == [pc |-> "idle"]

Init ==
  /\ entries = InitEntries
  /\ shifts = << >>
  /\ resp = Response("none")
  /\ inflight = [p \in Procs |-> Idle]

\* the route hands the result of the handler to the client (res.json, or
\* next(err) for a failure)
Respond ==
  /\ resp.kind # "none"
  /\ resp' = Response("none")
  /\ UNCHANGED <<entries, shifts, inflight>>

\* requests served one at a time: the next one is taken when the response of
\* the last one has been sent
Ready == resp.kind = "none"

\* the requests, their arguments drawn from the given sets; cap bounds the
\* number of manual entries created
Create(As, Args, cap) ==
  /\ Ready
  /\ \E a \in As, x \in Args :
       /\ CreateManualTimeEntry(Tenant(a), Actor(a), x.target, x.workDate, x.startTime,
                                x.endTime, x.breakMinutes)
       /\ Len(entries') <= Len(InitEntries) + cap

Update(As, Ids, Bodies) ==
  /\ Ready
  /\ \E a \in As, id \in Ids, x \in Bodies :
       UpdateManualTimeEntry(Tenant(a), Actor(a), id, x.workDate, x.startTime,
                             x.endTime, x.breakMinutes)

Submit(As, Ids) ==
  /\ Ready
  /\ \E a \in As, id \in Ids, now \in Dates :
       SubmitTimeEntry(Tenant(a), Actor(a), id, now)

Approve(As, Ids) ==
  /\ Ready
  /\ \E a \in As, id \in Ids, now \in Dates :
       ApproveTimeEntry(Tenant(a), Actor(a), id, now)

Reject(As, Ids, Rs) ==
  /\ Ready
  /\ \E a \in As, id \in Ids, r \in Rs :
       RejectTimeEntry(Tenant(a), Actor(a), id, r)

Void(As, Ids) ==
  /\ Ready
  /\ \E a \in As, id \in Ids :
       VoidTimeEntry(Tenant(a), Actor(a), id)

BulkApprove(As, Lists) ==
  /\ Ready
  /\ \E a \in As, ids \in Lists, now \in Dates :
       BulkApproveTimeEntries(Tenant(a), Actor(a), ids, now)

BulkReject(As, Lists, Rs) ==
  /\ Ready
  /\ \E a \in As, ids \in Lists, r \in Rs :
       BulkRejectTimeEntries(Tenant(a), Actor(a), ids, r)

ListPending(As, Ranges, Users) ==
  /\ Ready
  /\ \E a \in As, r \in Ranges, u \in Users :
       ListPendingTimeEntries(Tenant(a), Actor(a), r.from, r.to, u)

\* q names the query string: userId, from, to, status, mine
List(As, Queries) ==
  /\ Ready
  /\ \E a \in As, q \in Queries :
       ListTimeEntries(Tenant(a), Actor(a), q.userId, q.from, q.to, q.status, q.mine)

Get(As, Ids) ==
  /\ Ready
  /\ \E a \in As, id \in Ids : GetTimeEntry(Tenant(a), Actor(a), id)

Summary(As, Queries) ==
  /\ Ready
  /\ \E a \in As, q \in Queries :
       GetTimeEntrySummary(Tenant(a), Actor(a), q.from, q.to, q.mine, q.userId)

\* the requests on shifts; x names the body: userId, startAt, endAt
ShiftCreate(As, Args, cap) ==
  /\ Ready
  /\ \E a \in As, x \in Args :
       /\ CreateShift(Tenant(a), Actor(a), x.userId, x.startAt, x.endAt)
       /\ Len(shifts') <= cap

ShiftUpdate(As, Ids, Args) ==
  /\ Ready
  /\ \E a \in As, id \in Ids, x \in Args :
       UpdateShift(Tenant(a), Actor(a), id, x.userId, x.startAt, x.endAt)

ShiftPublish(As, Ids) ==
  /\ Ready
  /\ \E a \in As, id \in Ids, now \in Dates : PublishShift(Tenant(a), Actor(a), id, now)

ShiftCancel(As, Ids) ==
  /\ Ready
  /\ \E a \in As, id \in Ids : CancelShift(Tenant(a), Actor(a), id)

ShiftAssign(As, Ids, Users) ==
  /\ Ready
  /\ \E a \in As, id \in Ids, u \in Users : AssignShift(Tenant(a), Actor(a), id, u)

ShiftUnassign(As, Ids) ==
  /\ Ready
  /\ \E a \in As, id \in Ids : UnassignShift(Tenant(a), Actor(a), id)

ShiftGet(As, Ids) ==
  /\ Ready
  /\ \E a \in As, id \in Ids : GetShift(Tenant(a), Actor(a), id)

\* q names the query string: from, to, userId, status, mine, includeOpen
ShiftList(As, Queries) ==
  /\ Ready
  /\ \E a \in As, q \in Queries :
       ListShifts(Tenant(a), Actor(a), q.from, q.to, q.userId, q.status, q.mine,
                  q.includeOpen)

----------------------------------------------------------------------------
(* Spec: requests served one at a time, by every role and from both tenants *)

Actors == {"e1", "m1", "o2"}
Targets == {NULL, "e1", "m1", "x1"}

\* the ids a run can give out; one that is not given out yet names no entry
EntryIds == 1..(Len(InitEntries) + MaxEntries)

\* a well-formed body for each target, and the malformed ones for oneself: no
\* workDate, no startTime, end before start, a break longer than the interval,
\* a workDate that is not YYYY-MM-DD
CreateArgs ==
  { For(t, Body("2024-01-05", T0900, T1100, {})) : t \in Targets }
    \cup { For(NULL, b) : b \in { Body(NULL, T0900, T1100, {}),
                                  Body("2024-01-05", UNDEF, T1100, {}),
                                  Body("2024-01-05", T1100, T0900, {}),
                                  Body("2024-01-05", T0900, T1100, {200}),
                                  Body("2024-1-5", T0900, T1100, {}) } }

UpdateBodies ==
  { Body(NULL, UNDEF, UNDEF, {}),
    Body("2024-01-06", T1100, T1300, {30}),
    Body(NULL, T1300, UNDEF, {}),
    Body(NULL, UNDEF, T900, {}) }

Reasons == {<< >>, ReasonShort, ReasonOk}

\* the entryIds arrays of the bulk requests: empty, one id, a repeated id,
\* and a mix of the legacy document, manual entries and an id that may not exist
IdLists == { << >>, <<2>>, <<2, 2>>, <<1, 2, 3>> }

BulkReasons == {<< >>, ReasonShort, ReasonOk}

DateRange(from, to) == [from |-> from, to |-> to]

\* no bound, and the one day the well-formed create is for
PendingRanges == { DateRange(NULL, NULL), DateRange("2024-01-05", "2024-01-05") }

PendingUsers == {NULL, "e1"}

Next ==
  \/ Create(Actors, CreateArgs, MaxEntries)
  \/ Update(Actors, EntryIds, UpdateBodies)
  \/ Submit(Actors, EntryIds)
  \/ Approve(Actors, EntryIds)
  \/ Reject(Actors, EntryIds, Reasons)
  \/ Void(Actors, EntryIds)
  \/ BulkApprove(Actors, IdLists)
  \/ BulkReject(Actors, IdLists, BulkReasons)
  \/ ListPending(Actors, PendingRanges, PendingUsers)
  \/ Respond

Spec == Init /\ [][Next]_vars

----------------------------------------------------------------------------
(* SpecOverlap: requests served one at a time, one manager keeping his own   *)
(* entries of one work date, over intervals that are disjoint, touch or      *)
(* intersect                                                                 *)

OverlapActors == {"m1"}

OverlapIntervals ==
  { Body("2024-01-05", T0900, T1100, {}),
    Body("2024-01-05", T1100, T1300, {}),
    Body("2024-01-05", T0900, T1200, {}) }

OverlapCreateArgs == { For(NULL, b) : b \in OverlapIntervals }

\* an update that changes nothing, and one to each interval
OverlapUpdateBodies == { Body(NULL, UNDEF, UNDEF, {}) } \cup OverlapIntervals

OverlapIds == (Len(InitEntries) + 1)..(Len(InitEntries) + MaxOverlapEntries)

OverlapIdLists == { <<2>>, <<3, 2>> }

NextOverlap ==
  \/ Create(OverlapActors, OverlapCreateArgs, MaxOverlapEntries)
  \/ Update(OverlapActors, OverlapIds, OverlapUpdateBodies)
  \/ Submit(OverlapActors, OverlapIds)
  \/ Approve(OverlapActors, OverlapIds)
  \/ Reject(OverlapActors, OverlapIds, {ReasonOk})
  \/ Void(OverlapActors, OverlapIds)
  \/ BulkApprove(OverlapActors, OverlapIdLists)
  \/ BulkReject(OverlapActors, OverlapIdLists, {ReasonOk})
  \/ Respond

SpecOverlap == Init /\ [][NextOverlap]_vars

----------------------------------------------------------------------------
(* SpecCreateRace: createManualTimeEntry requests that interleave at their   *)
(* persistence round-trips.  A request suspends at the find of the overlap   *)
(* check (line 82) and at TimeEntry.create (line 134); what it read before   *)
(* the second is not read again.                                             *)

\* lines 106-132: the checks, the overlap query answered from the collection
\* as it is now; a request that passes is left waiting to insert its document
CreateBegin(p, businessId, actor, targetUserId, workDate, startTime, endTime, breakMinutes) ==
  LET c == createCheck(entries, businessId, actor, targetUserId, workDate, startTime,
                       endTime, breakMinutes)
  IN  /\ inflight[p] = Idle
      /\ IF c # "ok"
           THEN resp' = Response(c) /\ UNCHANGED inflight
           ELSE /\ inflight' = [inflight EXCEPT ![p] =
                      [pc |-> "create",
                       doc |-> createDoc(businessId, actor, targetUserId, workDate,
                                         startTime, endTime, breakMinutes)]]
                /\ UNCHANGED resp
      /\ UNCHANGED <<entries, shifts>>

\* an insert that runs the overlap query again, atomically with the write
createCommit_Recheck(docs, doc) ==
  IF ensureNoManualOverlap(docs, doc.business, doc.user, doc.workDate,
                           doc.startTime, doc.endTime, 0) # "ok"
    THEN [kind |-> "Conflict", docs |-> docs]
  ELSE [kind |-> "ok", docs |-> Append(docs, doc)]

\* what TimeEntry.create does with the document of a request that passed
createCommit(docs, doc) ==
  IF ~validEntry(doc) THEN [kind |-> "ValidationError", docs |-> docs]
  ELSE [kind |-> "ok", docs |-> Append(docs, doc)]

\* lines 134-149: the insert
CreateCommit(p) ==
  /\ inflight[p].pc = "create"
  /\ entries' = createCommit(entries, inflight[p].doc).docs
  /\ resp' = Response(createCommit(entries, inflight[p].doc).kind)
  /\ inflight' = [inflight EXCEPT ![p] = Idle]
  /\ UNCHANGED shifts

\* the manager creating for himself and for an employee
RaceCreateArgs == { For(t, b) : t \in {NULL, "e1"}, b \in OverlapIntervals }

RaceBegin ==
  \E p \in Procs, a \in OverlapActors, x \in RaceCreateArgs :
    /\ Len(entries) + Cardinality({q \in Procs : inflight[q] # Idle})
         < Len(InitEntries) + MaxOverlapEntries
    /\ CreateBegin(p, Tenant(a), Actor(a), x.target, x.workDate, x.startTime,
                   x.endTime, x.breakMinutes)

RaceCommit == \E p \in Procs : CreateCommit(p)

\* a void between the round-trips of the creates
RaceVoid == Void(OverlapActors, OverlapIds)

NextCreateRace == RaceBegin \/ RaceCommit \/ RaceVoid \/ Respond

SpecCreateRace == Init /\ [][NextCreateRace]_vars

----------------------------------------------------------------------------
(* SpecBulkRace: a single-entry request that interleaves, at its persistence *)
(* round-trips, with the bulk requests.  A single-entry handler suspends at  *)
(* findById and at entry.save(); the checks between the two run on the       *)
(* document as it was loaded.  A bulk handler changes the collection in the  *)
(* one updateMany it issues.                                                 *)

\* findById and the checks on the loaded document: a request that passes is
\* left holding the document as loaded and as changed in memory, waiting to
\* save it (doc is read only when the checks passed)
LoadEntry(p, check, entryId, doc) ==
  /\ inflight[p] = Idle
  /\ IF check # "ok"
       THEN resp' = Response(check) /\ UNCHANGED inflight
       ELSE /\ inflight' = [inflight EXCEPT ![p] =
                  [pc |-> "save", id |-> entryId, loaded |-> entries[entryId],
                   doc |-> doc]]
            /\ UNCHANGED resp
  /\ UNCHANGED <<entries, shifts>>

\* what entry.save() writes: the paths whose value was changed in memory since
\* the load are set on the stored document, whatever it holds by now
savePaths(stored, loaded, doc) ==
  [f \in DOMAIN stored |-> IF doc[f] # loaded[f] THEN doc[f] ELSE stored[f]]

\* entry.save(): the document in memory validated, its changed paths written
SaveEntry(p) ==
  /\ inflight[p].pc = "save"
  /\ IF ~validEntry(inflight[p].doc)
       THEN resp' = Response("ValidationError") /\ UNCHANGED entries
       ELSE /\ entries' = [entries EXCEPT ![inflight[p].id] =
                             savePaths(entries[inflight[p].id], inflight[p].loaded,
                                       inflight[p].doc)]
            /\ resp' = [Response("ok") EXCEPT !.rows = {inflight[p].id}]
  /\ inflight' = [inflight EXCEPT ![p] = Idle]
  /\ UNCHANGED shifts

\* the handlers up to their save
UpdateLoad(p, businessId, actor, entryId, workDate, startTime, endTime, breakMinutes) ==
  LoadEntry(p, updateCheck(entries, businessId, actor, entryId, workDate, startTime,
                           endTime, breakMinutes),
            entryId,
            updateDoc(entries[entryId], actor, workDate, startTime, endTime,
                      breakMinutes))

SubmitLoad(p, businessId, actor, entryId, now) ==
  LoadEntry(p, submitCheck(entries, businessId, actor, entryId), entryId,
            submitDoc(entries[entryId], actor, now))

ApproveLoad(p, businessId, actor, entryId, now) ==
  LoadEntry(p, approveCheck(entries, businessId, actor, entryId), entryId,
            approveDoc(entries[entryId], actor, now))

RejectLoad(p, businessId, actor, entryId, reason) ==
  LoadEntry(p, rejectCheck(entries, businessId, actor, entryId, reason), entryId,
            rejectDoc(entries[entryId], actor, reason))

VoidLoad(p, businessId, actor, entryId) ==
  LoadEntry(p, voidCheck(entries, businessId, actor, entryId), entryId,
            voidDoc(entries[entryId], actor))

\* the employee and the manager of one tenant, on the first manual entry
BulkRaceActors == {"e1", "m1"}
BulkRaceId == Len(InitEntries) + 1
BulkRaceCreateArgs == { For(NULL, Body("2024-01-05", T0900, T1100, {})) }
BulkRaceBody == Body(NULL, T1100, T1300, {})

\* one single-entry request in flight at a time: what runs between its load and
\* its save are the bulk requests
RaceLoad ==
  \E p \in Procs, a \in BulkRaceActors :
    /\ \A q \in Procs : inflight[q] = Idle
    /\ \/ UpdateLoad(p, Tenant(a), Actor(a), BulkRaceId, BulkRaceBody.workDate,
                     BulkRaceBody.startTime, BulkRaceBody.endTime,
                     BulkRaceBody.breakMinutes)
       \/ \E now \in Dates : SubmitLoad(p, Tenant(a), Actor(a), BulkRaceId, now)
       \/ \E now \in Dates : ApproveLoad(p, Tenant(a), Actor(a), BulkRaceId, now)
       \/ RejectLoad(p, Tenant(a), Actor(a), BulkRaceId, ReasonOk)
       \/ VoidLoad(p, Tenant(a), Actor(a), BulkRaceId)

RaceSave == \E p \in Procs : SaveEntry(p)

NextBulkRace ==
  \/ Create({"e1"}, BulkRaceCreateArgs, MaxEntries)
  \/ RaceLoad
  \/ RaceSave
  \/ BulkApprove({"m1"}, {<<BulkRaceId>>})
  \/ BulkReject({"m1"}, {<<BulkRaceId>>}, {ReasonOk})
  \/ Respond

SpecBulkRace == Init /\ [][NextBulkRace]_vars

----------------------------------------------------------------------------
(* SpecLegacy: requests served one at a time on a collection that holds a    *)
(* manual entry stored before the time fields were enforced (the "malformed  *)
(* legacy" rows that ensureNoManualOverlap skips): its endTime is missing    *)

LegacyManualEntry ==
  [ business |-> "B1", user |-> "e1", entryType |-> "manual",
    workDate |-> "2024-01-04", startTime |-> T0900, endTime |-> << >>,
    breakMinutes |-> 0, status |-> "draft", submittedAt |-> NULL,
    approvedBy |-> NULL, approvedAt |-> NULL, rejectionReason |-> << >>,
    createdBy |-> "e1", updatedBy |-> "e1" ]

InitLegacy ==
  /\ entries = <<LegacyClockEntry, LegacyManualEntry>>
  /\ shifts = << >>
  /\ resp = Response("none")
  /\ inflight = [p \in Procs |-> Idle]

\* the legacy documents and an id that does not exist
LegacyIds == 1..3

\* no change, an endTime that completes the entry, one before its startTime,
\* a break longer than the completed interval, and all four fields replaced
LegacyUpdateBodies ==
  { Body(NULL, UNDEF, UNDEF, {}),
    Body(NULL, UNDEF, T1100, {}),
    Body(NULL, T1300, T1100, {}),
    Body(NULL, UNDEF, T1100, {200}),
    Body("2024-01-06", T1100, T1300, {30}) }

NextLegacy ==
  \/ Update(Actors, LegacyIds, LegacyUpdateBodies)
  \/ Submit(Actors, LegacyIds)
  \/ Approve(Actors, LegacyIds)
  \/ Reject(Actors, LegacyIds, {ReasonOk})
  \/ Void(Actors, LegacyIds)
  \/ Respond

SpecLegacy == InitLegacy /\ [][NextLegacy]_vars

----------------------------------------------------------------------------
(* SpecRead: requests served one at a time; entries are created by and for   *)
(* the users of both tenants and submitted, and every role reads them        *)

\* two days, for oneself and for the employee
ReadCreateArgs ==
  { For(t, b) : t \in {NULL, "e1"},
                b \in { Body("2024-01-05", T0900, T1100, {}),
                        Body("2024-01-06", T1100, T1300, {30}) } }

ReadIds == 1..(Len(InitEntries) + MaxReadEntries)

Query(userId, range, status, mine) ==
  [userId |-> userId, from |-> range.from, to |-> range.to, status |-> status,
   mine |-> mine]

\* every combination of userId (none, the employee, the manager) and mine,
\* with no other filter and with a range and a status
ReadQueries ==
  { Query(u, DateRange(NULL, NULL), NULL, mine) :
      u \in {NULL, "e1", "m1"}, mine \in BOOLEAN }
    \cup { Query(u, DateRange("2024-01-05", "2024-01-05"), "submitted", mine) :
             u \in {NULL, "e1", "m1"}, mine \in BOOLEAN }

NextRead ==
  \/ Create(Actors, ReadCreateArgs, MaxReadEntries)
  \/ Submit(Actors, ReadIds)
  \/ List(Actors, ReadQueries)
  \/ Get(Actors, ReadIds)
  \/ Summary(Actors, ReadQueries)
  \/ ListPending(Actors, PendingRanges, PendingUsers)
  \/ Respond

SpecRead == Init /\ [][NextRead]_vars

----------------------------------------------------------------------------------------------------------------------------------------
(* SpecTenant: requests served one at a time on both collections.  The       *)
(* manager of B1 and the owner of B2 create entries and shifts, submit,      *)
(* decide in bulk and cancel; every role of both tenants reads.  Every       *)
(* request names the ids of either tenant.                                   *)

TenantWriters == {"m1", "o2"}

\* one day and interval, for oneself and for the employee e1 of B1
TenantCreateArgs ==
  { For(t, Body("2024-01-05", T0900, T1100, {})) : t \in {NULL, "e1"} }

ShiftBody(userId, startAt, endAt) ==
  [userId |-> userId, startAt |-> startAt, endAt |-> endAt]

\* one interval, for the employee e1, whichever tenant asks
TenantShiftArgs == { ShiftBody("e1", "2024-01-05T09:00Z", "2024-01-05T11:00Z") }

TenantEntryIds == 1..(Len(InitEntries) + MaxTenantDocs)

TenantShiftIds == 1..MaxTenantDocs

\* the entryIds array of the bulk requests: every id a run can give out
TenantIdList == [i \in TenantEntryIds |-> i]

TenantQueries ==
  { Query(NULL, DateRange(NULL, NULL), NULL, TRUE),
    Query(NULL, DateRange(NULL, NULL), NULL, FALSE) }

ShiftQuery(userId, status, mine, includeOpen) ==
  [from |-> NULL, to |-> NULL, userId |-> userId, status |-> status, mine |-> mine,
   includeOpen |-> includeOpen]

TenantShiftQueries ==
  { ShiftQuery(NULL, NULL, FALSE, TRUE), ShiftQuery("e1", "draft", FALSE, FALSE) }

\* the bulk approvals are B1's and the bulk rejections B2's
NextTenant ==
  \/ Create(TenantWriters, TenantCreateArgs, MaxTenantDocs)
  \/ Submit(TenantWriters, TenantEntryIds)
  \/ BulkApprove({"m1"}, {TenantIdList})
  \/ BulkReject({"o2"}, {TenantIdList}, {ReasonOk})
  \/ List(Actors, TenantQueries)
  \/ Get(Actors, TenantEntryIds)
  \/ Summary(Actors, TenantQueries)
  \/ ListPending(Actors, {DateRange(NULL, NULL)}, {NULL})
  \/ ShiftCreate(TenantWriters, TenantShiftArgs, MaxTenantDocs)
  \/ ShiftCancel(TenantWriters, TenantShiftIds)
  \/ ShiftGet(Actors, TenantShiftIds)
  \/ ShiftList(Actors, TenantShiftQueries)
  \/ Respond

SpecTenant == Init /\ [][NextTenant]_vars

----------------------------------------------------------------------------
(* SpecShift: the shift requests served one at a time: the manager and the   *)
(* employee of B1 on shifts that are open or assigned to e1, over intervals  *)
(* that are disjoint, touch or intersect; the owner of B2 adds shifts of e1  *)
(* in the other tenant                                                       *)

\* the number of shifts created
MaxShifts == 2

ShiftActors == {"e1", "m1"}

ShiftIntervals ==
  { ShiftBody(NOARG, "2024-01-05T09:00Z", "2024-01-05T11:00Z"),
    ShiftBody(NOARG, "2024-01-05T11:00Z", "2024-01-05T13:00Z"),
    ShiftBody(NOARG, "2024-01-05T09:00Z", "2024-01-05T12:00Z") }

\* open and assigned shifts on each interval, and one that ends before it starts
ShiftCreateArgs ==
  { ShiftBody(u, i.startAt, i.endAt) : u \in {NULL, "e1"}, i \in ShiftIntervals }
    \cup { ShiftBody(NULL, "2024-01-05T11:00Z", "2024-01-05T09:00Z") }

ShiftOtherTenantArgs == { ShiftBody("e1", "2024-01-05T09:00Z", "2024-01-05T12:00Z") }

\* a body that changes nothing, one that gives the shift to e1, one that
\* takes its user away, and one for each interval
ShiftUpdateArgs ==
  { ShiftBody(NOARG, NULL, NULL), ShiftBody("e1", NULL, NULL),
    ShiftBody(NULL, NULL, NULL) } \cup ShiftIntervals

ShiftIds == 1..MaxShifts

ShiftUsers == {NULL, "e1"}

NextShift ==
  \/ ShiftCreate(ShiftActors, ShiftCreateArgs, MaxShifts)
  \/ ShiftCreate({"o2"}, ShiftOtherTenantArgs, MaxShifts)
  \/ ShiftUpdate(ShiftActors, ShiftIds, ShiftUpdateArgs)
  \/ ShiftPublish(ShiftActors, ShiftIds)
  \/ ShiftCancel(ShiftActors, ShiftIds)
  \/ ShiftAssign(ShiftActors, ShiftIds, ShiftUsers)
  \/ ShiftUnassign(ShiftActors, ShiftIds)
  \/ Respond

SpecShift == Init /\ [][NextShift]_vars

----------------------------------------------------------------------------
(* SpecShiftCancel: the manager and the owner of B1 create, publish and      *)
(* cancel shifts, one request at a time                                      *)

CancelActors == {"m1", "o1"}

CancelShiftArgs == { ShiftBody(NULL, "2024-01-05T09:00Z", "2024-01-05T11:00Z") }

NextShiftCancel ==
  \/ ShiftCreate(CancelActors, CancelShiftArgs, MaxShifts)
  \/ ShiftPublish(CancelActors, ShiftIds)
  \/ ShiftCancel(CancelActors, ShiftIds)
  \/ Respond

SpecShiftCancel == Init /\ [][NextShiftCancel]_vars

----------------------------------------------------------------------------
(* SpecShiftRead: the managers of both tenants create shifts that are open   *)
(* or assigned to the employee e1 or to the manager m1, publish and cancel   *)
(* them; the employee and the manager of B1 read them                        *)

ReadShiftArgs ==
  { ShiftBody(u, "2024-01-05T09:00Z", "2024-01-05T11:00Z") : u \in {NULL, "e1", "m1"} }
    \cup { ShiftBody("e1", "2024-01-05T11:00Z", "2024-01-05T13:00Z") }

ShiftReaders == {"e1", "m1"}

\* every combination of the filters, with and without a lower bound on startAt
ReadShiftQueries ==
  { [ShiftQuery(u, st, mine, open) EXCEPT !.from = f] :
      u \in {NULL, "m1"}, st \in {NULL, "draft"}, mine \in BOOLEAN, open \in BOOLEAN,
      f \in {NULL, "2024-01-05T11:00Z"} }

NextShiftRead ==
  \/ ShiftCreate({"m1"}, ReadShiftArgs, MaxShifts)
  \/ ShiftCreate({"o2"}, ShiftOtherTenantArgs, MaxShifts)
  \/ ShiftPublish({"m1"}, ShiftIds)
  \/ ShiftCancel({"m1"}, ShiftIds)
  \/ ShiftGet(ShiftReaders, ShiftIds)
  \/ ShiftList(ShiftReaders, ReadShiftQueries)
  \/ Respond

SpecShiftRead == Init /\ [][NextShiftRead]_vars

----------------------------------------------------------------------------
(* SpecIntervals: the manager of B1 creates his own time entries of one day  *)
(* and shifts of e1, one request at a time, over every interval between four *)
(* points of time                                                            *)

GridTimes == <<T0900, T1100, T1200, T1300>>

GridDates ==
  << "2024-01-05T09:00Z", "2024-01-05T11:00Z", "2024-01-05T12:00Z",
     "2024-01-05T13:00Z" >>

\* the intervals: an earlier and a later point of the grid
GridPairs == { p \in (DOMAIN GridTimes) \X (DOMAIN GridTimes) : p[1] < p[2] }

IntervalCreateArgs ==
  { For(NULL, Body("2024-01-05", GridTimes[p[1]], GridTimes[p[2]], {})) : p \in GridPairs }

IntervalShiftArgs ==
  { ShiftBody("e1", GridDates[p[1]], GridDates[p[2]]) : p \in GridPairs }

NextIntervals ==
  \/ Create({"m1"}, IntervalCreateArgs, MaxOverlapEntries)
  \/ ShiftCreate({"m1"}, IntervalShiftArgs, MaxShifts)
  \/ Respond

SpecIntervals == Init /\ [][NextIntervals]_vars

----------------------------------------------------------------------------
(* SpecShiftRace: createShift, updateShift and assignShift requests of the   *)
(* manager for e1 that interleave at their persistence round-trips.  A       *)
(* request suspends at the findOne of ensureNoShiftOverlap (line 531) and at *)
(* Shift.create (line 559) or shift.save() (lines 619, 677); what it read    *)
(* before the write is not read again.  findById and the overlap query of    *)
(* one request are taken together.                                           *)

\* lines 551-557: the checks of createShift; a request that passes is left
\* waiting to insert its document
CreateShiftBegin(p, businessId, actor, userId, startAt, endAt) ==
  LET c == createShiftCheck(shifts, businessId, actor, userId, startAt, endAt)
  IN  /\ inflight[p] = Idle
      /\ IF c # "ok"
           THEN resp' = Response(c) /\ UNCHANGED inflight
           ELSE /\ inflight' = [inflight EXCEPT ![p] =
                      [pc |-> "createShift", id |-> 0,
                       doc |-> createShiftDoc(businessId, actor, userId, startAt,
                                              endAt)]]
                /\ UNCHANGED resp
      /\ UNCHANGED <<entries, shifts>>

\* lines 559-572: Shift.create
CreateShiftCommit(p) ==
  /\ inflight[p].pc = "createShift"
  /\ IF ~validShift(inflight[p].doc)
       THEN resp' = Response("ValidationError") /\ UNCHANGED shifts
       ELSE /\ shifts' = Append(shifts, inflight[p].doc)
            /\ resp' = [Response("ok") EXCEPT !.rows = {Len(shifts) + 1}]
  /\ inflight' = [inflight EXCEPT ![p] = Idle]
  /\ UNCHANGED entries

\* a handler that changes a shift, up to its save: the failure of its checks
\* returned, or the request left holding the document as loaded and as
\* changed in memory (doc is read only when the checks passed)
LoadShift(p, check, shiftId, doc) ==
  /\ inflight[p] = Idle
  /\ IF check # "ok"
       THEN resp' = Response(check) /\ UNCHANGED inflight
       ELSE /\ inflight' = [inflight EXCEPT ![p] =
                  [pc |-> "saveShift", id |-> shiftId, loaded |-> shifts[shiftId],
                   doc |-> doc]]
            /\ UNCHANGED resp
  /\ UNCHANGED <<entries, shifts>>

\* shift.save(): the document in memory validated, its changed paths written
SaveShift(p) ==
  /\ inflight[p].pc = "saveShift"
  /\ IF ~validShift(inflight[p].doc)
       THEN resp' = Response("ValidationError") /\ UNCHANGED shifts
       ELSE /\ shifts' = [shifts EXCEPT ![inflight[p].id] =
                            savePaths(shifts[inflight[p].id], inflight[p].loaded,
                                      inflight[p].doc)]
            /\ resp' = [Response("ok") EXCEPT !.rows = {inflight[p].id}]
  /\ inflight' = [inflight EXCEPT ![p] = Idle]
  /\ UNCHANGED entries

UpdateShiftLoad(p, businessId, actor, shiftId, userId, startAt, endAt) ==
  LoadShift(p, updateShiftCheck(shifts, businessId, actor, shiftId, userId, startAt,
                                endAt),
            shiftId, updateShiftDoc(shifts[shiftId], actor, userId, startAt, endAt))

AssignShiftLoad(p, businessId, actor, shiftId, userId) ==
  LoadShift(p, assignShiftCheck(shifts, businessId, actor, shiftId, userId), shiftId,
            assignShiftDoc(shifts[shiftId], actor, userId))

ShiftRaceActors == {"m1"}

\* a shift of e1 from 9 to 11 and an open one from 11 to 13
ShiftRaceCreateArgs ==
  { ShiftBody("e1", "2024-01-05T09:00Z", "2024-01-05T11:00Z"),
    ShiftBody(NULL, "2024-01-05T11:00Z", "2024-01-05T13:00Z") }

\* the shift moved to 11 to 13, its user kept
ShiftRaceUpdateArgs == { ShiftBody(NOARG, "2024-01-05T11:00Z", "2024-01-05T13:00Z") }

ShiftRaceBegin ==
  \E p \in Procs, a \in ShiftRaceActors :
    \/ \E x \in ShiftRaceCreateArgs :
         /\ Len(shifts) + Cardinality({q \in Procs : inflight[q].pc = "createShift"})
              < MaxShifts
         /\ CreateShiftBegin(p, Tenant(a), Actor(a), x.userId, x.startAt, x.endAt)
    \/ \E id \in DOMAIN shifts, x \in ShiftRaceUpdateArgs :
         UpdateShiftLoad(p, Tenant(a), Actor(a), id, x.userId, x.startAt, x.endAt)
    \/ \E id \in DOMAIN shifts : AssignShiftLoad(p, Tenant(a), Actor(a), id, "e1")

ShiftRaceWrite == \E p \in Procs : CreateShiftCommit(p) \/ SaveShift(p)

NextShiftRace == ShiftRaceBegin \/ ShiftRaceWrite \/ Respond

SpecShiftRace == Init /\ [][NextShiftRace]_vars

----------------------------------------------------------------------------
(* SpecSelfExclusion: the manager of B1 creates and edits his own draft      *)
(* entries of one day, and creates, edits and assigns live shifts, one       *)
(* request at a time                                                         *)

NextSelfExclusion ==
  \/ Create(OverlapActors, OverlapCreateArgs, MaxOverlapEntries)
  \/ Update(OverlapActors, OverlapIds, OverlapUpdateBodies)
  \/ ShiftCreate(OverlapActors, ShiftCreateArgs, MaxShifts)
  \/ ShiftUpdate(OverlapActors, ShiftIds, ShiftUpdateArgs)
  \/ ShiftAssign(OverlapActors, ShiftIds, ShiftUsers)
  \/ Respond

SpecSelfExclusion == Init /\ [][NextSelfExclusion]_vars

----------------------------------------------------------------------------
(* SpecExcluded: the manager of B1 keeps his own time entries of one day,    *)
(* through every status, or the shifts of B1, one request at a time.  The    *)
(* two collections share no code path, so a run works on one of them: entry  *)
(* requests are served while no shift exists, shift requests while no manual *)
(* entry exists.                                                             *)

ExcludedEntryRequest ==
  \/ Create(OverlapActors, OverlapCreateArgs, MaxOverlapEntries)
  \/ Update(OverlapActors, OverlapIds, OverlapUpdateBodies)
  \/ Submit(OverlapActors, OverlapIds)
  \/ Approve(OverlapActors, OverlapIds)
  \/ Reject(OverlapActors, OverlapIds, {ReasonOk})
  \/ Void(OverlapActors, OverlapIds)

ExcludedShiftRequest ==
  \/ ShiftCreate(OverlapActors, ShiftCreateArgs, MaxShifts)
  \/ ShiftUpdate(OverlapActors, ShiftIds, ShiftUpdateArgs)
  \/ ShiftPublish(OverlapActors, ShiftIds)
  \/ ShiftCancel(OverlapActors, ShiftIds)
  \/ ShiftAssign(OverlapActors, ShiftIds, ShiftUsers)

NextExcluded ==
  \/ Len(shifts) = 0 /\ ExcludedEntryRequest
  \/ Len(entries) = Len(InitEntries) /\ ExcludedShiftRequest
  \/ Respond

SpecExcluded == Init /\ [][NextExcluded]_vars

----------------------------------------------------------------------------
(* SpecTotals: requests served one at a time on the collection of           *)
(* SpecLegacy; a manager creates, updates, submits and reads entries whose   *)
(* times and breaks range over the day: midnight, the last minute, a half   *)
(* hour, a break as long as the interval and one a minute longer             *)

T0000 == <<"0", "0", ":", "0", "0">>
T0930 == <<"0", "9", ":", "3", "0">>
T2359 == <<"2", "3", ":", "5", "9">>

TotalsTimes == <<T0000, T0900, T0930, T2359>>

TotalsBreaks == { {}, {30}, {31} }

\* the intervals asked for, as positions in TotalsTimes: four with end > start
\* (the whole day among them), one with end = start and one with end < start
TotalsPairs == { <<1, 2>>, <<2, 3>>, <<3, 4>>, <<1, 4>>, <<2, 2>>, <<3, 2>> }

TotalsCreateArgs ==
  { For(NULL, Body("2024-01-05", TotalsTimes[p[1]], TotalsTimes[p[2]], b)) :
      p \in TotalsPairs, b \in TotalsBreaks }

\* no change, an end that completes or extends the entry, an end before the
\* start, a longer break, and all three fields replaced
TotalsUpdateBodies ==
  { Body(NULL, UNDEF, UNDEF, {}),
    Body(NULL, UNDEF, T2359, {}),
    Body(NULL, T0930, T0900, {}),
    Body(NULL, UNDEF, UNDEF, {31}),
    Body(NULL, T0000, T0930, {30}) }

\* the legacy manual entry and the entries created
TotalsIds == 2..(2 + MaxEntries)

TotalsActors == {"m1"}

NextTotals ==
  \/ Create(TotalsActors, TotalsCreateArgs, 1 + MaxEntries)
  \/ Update(TotalsActors, TotalsIds, TotalsUpdateBodies)
  \/ Submit(TotalsActors, TotalsIds)
  \/ Get(TotalsActors, TotalsIds)
  \/ Respond

SpecTotals == InitLegacy /\ [][NextTotals]_vars

----------------------------------------------------------------------------
(* SpecRounding: a caller of the exported roundMinutes applies it to the    *)
(* minutes 0..MaxMinutes, to increments without and with a middle point, to *)
(* no increment, and to the three modes and one the function does not know  *)

MaxMinutes == 31

RoundingIncrements == {0, 1, 5, 6, 15}

RoundingModes == {"up", "down", "nearest", "half"}

\* roundMinutes(minutes, increment, mode), its argument and result handed back
RoundMinutes(minutes, increment, mode) ==
  /\ resp' = [Response("ok") EXCEPT
                !.totals = [ok |-> TRUE, paidMinutes |-> minutes,
                            paidMinutesRounded |->
                              roundMinutes(minutes, increment, mode)]]
  /\ UNCHANGED <<entries, shifts, inflight>>

Round ==
  /\ Ready
  /\ \E minutes \in 0..MaxMinutes, increment \in RoundingIncrements,
        mode \in RoundingModes : RoundMinutes(minutes, increment, mode)

NextRounding == Round \/ Respond

SpecRounding == Init /\ [][NextRounding]_vars

----------------------------------------------------------------------------
(* SpecSummary: requests served one at a time on a collection that holds,   *)
(* beside the clock entry, one manual row that the service did not write:   *)
(* no endTime, a startTime that is not HH:mm, an end before the start, or a  *)
(* break longer than the interval.  The manager creates well-formed entries *)
(* beside it and submits them, and the employee and the manager ask for the *)
(* summary.                                                                  *)

MalformedEntries ==
  { LegacyManualEntry,
    [LegacyManualEntry EXCEPT !.startTime = T900, !.endTime = T0930],
    [LegacyManualEntry EXCEPT !.startTime = T0930, !.endTime = T0900],
    [LegacyManualEntry EXCEPT !.endTime = T0930, !.breakMinutes = 31] }

InitSummary ==
  /\ \E row \in MalformedEntries : entries = <<LegacyClockEntry, row>>
  /\ shifts = << >>
  /\ resp = Response("none")
  /\ inflight = [p \in Procs |-> Idle]

SummaryActors == {"e1", "m1"}

\* the manager writes, for the employee as well
SummaryWriters == {"m1"}

\* for oneself and for the employee: half an hour that is all break, the
\* rest of the day, and the morning with a break
SummaryCreateArgs ==
  { For(t, b) : t \in {NULL, "e1"},
                b \in { Body("2024-01-05", T0900, T0930, {30}),
                        Body("2024-01-05", T0930, T2359, {}),
                        Body("2024-01-06", T0000, T0900, {30}) } }

SummaryIds == 2..(2 + MaxReadEntries)

\* the whole collection and the one day, for all users, the employee, oneself
SummaryQueries ==
  { Query(u, r, NULL, mine) :
      u \in {NULL, "e1"}, mine \in BOOLEAN,
      r \in { DateRange(NULL, NULL), DateRange("2024-01-04", "2024-01-05") } }

NextSummary ==
  \/ Create(SummaryWriters, SummaryCreateArgs, 1 + MaxReadEntries)
  \/ Submit(SummaryWriters, SummaryIds)
  \/ Summary(SummaryActors, SummaryQueries)
  \/ Respond

SpecSummary == InitSummary /\ [][NextSummary]_vars

----------------------------------------------------------------------------
(* SpecBounds: requests served one at a time; the manager creates and       *)
(* updates entries with breaks that are absent, as long as the interval,     *)
(* longer, and negative, and with intervals whose end is at or before the    *)
(* start; entries are submitted and rejected, so that rejected ones are      *)
(* edited as well                                                            *)

BoundsActors == {"m1"}

BoundsBreaks == { {}, {30}, {31}, {-5} }

BoundsCreateArgs ==
  { For(NULL, Body("2024-01-05", TotalsTimes[p[1]], TotalsTimes[p[2]], b)) :
      p \in TotalsPairs, b \in BoundsBreaks }

BoundsUpdateBodies ==
  { Body(NULL, UNDEF, UNDEF, {-5}),
    Body(NULL, UNDEF, UNDEF, {31}),
    Body(NULL, UNDEF, T0900, {}),
    Body(NULL, T0900, T0930, {30}),
    Body(NULL, T0000, T2359, {-5}) }

BoundsIds == (Len(InitEntries) + 1)..(Len(InitEntries) + MaxEntries)

NextBounds ==
  \/ Create(BoundsActors, BoundsCreateArgs, MaxEntries)
  \/ Update(BoundsActors, BoundsIds, BoundsUpdateBodies)
  \/ Submit(BoundsActors, BoundsIds)
  \/ Reject(BoundsActors, BoundsIds, {ReasonOk})
  \/ Respond

SpecBounds == Init /\ [][NextBounds]_vars

----------------------------------------------------------------------------
(* SpecNonManual: requests served one at a time by the employee and the     *)
(* manager of the tenant that holds the clock entry; every single-entry     *)
(* handler is called on the clock entry, on manual entries and on an id     *)
(* that no document has                                                      *)

NonManualActors == {"e1", "m1"}

NonManualCreateArgs ==
  { For(NULL, Body("2024-01-05", T0900, T1100, {})),
    For("e1", Body("2024-01-06", T1100, T1300, {30})) }

\* an id beyond every document the specification can hold
MissingId == Len(InitEntries) + MaxEntries + 1

NonManualIds == 1..MissingId

NextNonManual ==
  \/ Create(NonManualActors, NonManualCreateArgs, MaxEntries)
  \/ Update(NonManualActors, NonManualIds, UpdateBodies)
  \/ Submit(NonManualActors, NonManualIds)
  \/ Approve(NonManualActors, NonManualIds)
  \/ Reject(NonManualActors, NonManualIds, Reasons)
  \/ Void(NonManualActors, NonManualIds)
  \/ Get(NonManualActors, NonManualIds)
  \/ Respond

SpecNonManual == Init /\ [][NextNonManual]_vars

----------------------------------------------------------------------------
(* SpecFailures: requests served one at a time, with the actors, ids and    *)
(* arguments of Spec for the time entries and those of SpecShift for the    *)
(* shifts, malformed and unauthorized ones included; the two collections     *)
(* are filled one at a time, since no handler of one reads or writes the     *)
(* other                                                                     *)

NextFailures ==
  \/ Len(shifts) = 0 /\ Next
  \/ entries = InitEntries /\ NextShift

SpecFailures == Init /\ [][NextFailures]_vars

----------------------------------------------------------------------------
(* SpecEntryRace: single-entry requests of the manager on one entry that    *)
(* interleave at their persistence round-trips: each suspends at findById   *)
(* and at entry.save(), and up to MaxProcs of them are between the two      *)

EntryRaceActors == {"m1"}

EntryRaceId == Len(InitEntries) + 1

EntryRaceCreateArgs == { For(NULL, Body("2024-01-05", T0900, T1100, {})) }

EntryRaceBody == Body("2024-01-06", T1100, T1300, {30})

EntryRaceLoad ==
  \E p \in Procs, a \in EntryRaceActors :
    \/ UpdateLoad(p, Tenant(a), Actor(a), EntryRaceId, EntryRaceBody.workDate,
                  EntryRaceBody.startTime, EntryRaceBody.endTime,
                  EntryRaceBody.breakMinutes)
    \/ \E now \in Dates : SubmitLoad(p, Tenant(a), Actor(a), EntryRaceId, now)
    \/ \E now \in Dates : ApproveLoad(p, Tenant(a), Actor(a), EntryRaceId, now)
    \/ RejectLoad(p, Tenant(a), Actor(a), EntryRaceId, ReasonOk)
    \/ VoidLoad(p, Tenant(a), Actor(a), EntryRaceId)

EntryRaceSave == \E p \in Procs : SaveEntry(p)

NextEntryRace ==
  \/ Create(EntryRaceActors, EntryRaceCreateArgs, MaxEntries)
  \/ EntryRaceLoad
  \/ EntryRaceSave
  \/ Respond

SpecEntryRace == Init /\ [][NextEntryRace]_vars

----------------------------------------------------------------------------
(* SpecDecisionRace: the entry is created and submitted by requests that    *)
(* run alone; approveTimeEntry and rejectTimeEntry requests of the manager   *)
(* on it interleave at findById and entry.save()                             *)

DecisionLoad ==
  \E p \in Procs, a \in EntryRaceActors :
    \/ \E now \in Dates : ApproveLoad(p, Tenant(a), Actor(a), EntryRaceId, now)
    \/ RejectLoad(p, Tenant(a), Actor(a), EntryRaceId, ReasonOk)

NextDecisionRace ==
  \/ Create(EntryRaceActors, EntryRaceCreateArgs, MaxEntries)
  \/ Submit(EntryRaceActors, {EntryRaceId})
  \/ DecisionLoad
  \/ EntryRaceSave
  \/ Respond

SpecDecisionRace == Init /\ [][NextDecisionRace]_vars

----------------------------------------------------------------------------
(* The properties checked *)

ManagerLikeUsers == {"m1", "o2"}

\* the entry a request of actor a names exists, is manual and is of a's tenant
InTenantManual(a, id) ==
  /\ id \in DOMAIN entries
  /\ entries[id].entryType = "manual"
  /\ entries[id].business = UserTable[a].business

\* the steps of Spec that are a call of the named handler on entry id
IsSubmit(id) ==
  \E a \in Actors, now \in Dates : SubmitTimeEntry(Tenant(a), Actor(a), id, now)

IsApprove(id) ==
  \E a \in Actors, now \in Dates : ApproveTimeEntry(Tenant(a), Actor(a), id, now)

IsReject(id) ==
  \E a \in Actors, r \in Reasons : RejectTimeEntry(Tenant(a), Actor(a), id, r)

IsVoid(id) ==
  \E a \in Actors : VoidTimeEntry(Tenant(a), Actor(a), id)

IsBulkApprove(id) ==
  \E a \in Actors, ids \in IdLists, now \in Dates :
    id \in Range(ids) /\ BulkApproveTimeEntries(Tenant(a), Actor(a), ids, now)

IsBulkReject(id) ==
  \E a \in Actors, ids \in IdLists, r \in BulkReasons :
    id \in Range(ids) /\ BulkRejectTimeEntries(Tenant(a), Actor(a), ids, r)

C1_Edge(id) ==
  LET old == entries[id].status
      new == entries'[id].status
  IN  old # new =>
        \/ old \in {"draft", "rejected"} /\ new = "submitted" /\ IsSubmit(id)
        \/ old = "submitted" /\ new = "approved" /\ (IsApprove(id) \/ IsBulkApprove(id))
        \/ old = "submitted" /\ new = "rejected" /\ (IsReject(id) \/ IsBulkReject(id))
        \/ new = "void" /\ IsVoid(id)

\* C1: with requests served one at a time, an entry enters the collection with
\* status draft, and in every step the status of a stored entry either stays
\* or moves along one of draft->submitted, rejected->submitted (a submit),
\* submitted->approved (approve, bulkApprove), submitted->rejected (reject,
\* bulkReject), any->void (void), the step being a call of the handler named.
C1_StatusEdges ==
  [][ /\ \A id \in DOMAIN entries : C1_Edge(id)
      /\ \A id \in DOMAIN entries' \ DOMAIN entries : entries'[id].status = "draft"
    ]_vars

\* an entry that went draft -> submitted -> rejected -> submitted
C1_Witness ==
  \E id \in DOMAIN entries :
    entries[id].status = "submitted" /\ entries[id].rejectionReason # << >>

C4_Approve(a, id, now) ==
  ( /\ a \in ManagerLikeUsers
    /\ InTenantManual(a, id)
    /\ ApproveTimeEntry(Tenant(a), Actor(a), id, now) )
  => IF entries[id].status = "submitted"
       THEN /\ resp'.kind = "ok"
            /\ entries' = [entries EXCEPT ![id] =
                 [entries[id] EXCEPT !.status = "approved", !.approvedBy = a,
                                     !.approvedAt = now, !.updatedBy = a]]
       ELSE resp'.kind = "Conflict" /\ entries' = entries

C4_Reject(a, id) ==
  ( /\ a \in ManagerLikeUsers
    /\ InTenantManual(a, id)
    /\ RejectTimeEntry(Tenant(a), Actor(a), id, ReasonOk) )
  => IF entries[id].status = "submitted"
       THEN resp'.kind = "ok" /\ entries'[id].status = "rejected"
       ELSE resp'.kind = "Conflict" /\ entries' = entries

\* C4: approveTimeEntry, and rejectTimeEntry with a valid reason, called by a
\* manager-like actor on a manual entry of the actor's tenant, succeed exactly
\* when the entry is submitted; in draft, approved, rejected and void they
\* answer Conflict and change nothing.  A successful approve sets status
\* approved, approvedBy to the actor and approvedAt to the time of the call.
C4_DecideOnlySubmitted ==
  [][ \A a \in Actors, id \in EntryIds :
        /\ \A now \in Dates : C4_Approve(a, id, now)
        /\ C4_Reject(a, id)
    ]_vars

\* an entry approved by the manager, and an approve that was then refused
C4_Witness ==
  /\ resp.kind = "Conflict"
  /\ \E id \in DOMAIN entries :
       /\ entries[id].status = "approved"
       /\ entries[id].approvedBy = "m1"
       /\ entries[id].approvedAt = "t1"

\* C5: void is terminal: in no step of requests served one at a time does an
\* entry whose status is void get another status.
C5_VoidTerminal ==
  [][ \A id \in DOMAIN entries :
        entries[id].status = "void" => entries'[id].status = "void" ]_vars

\* a voided entry on which a later request was refused
C5_Witness ==
  /\ resp.kind = "Conflict"
  /\ \E id \in DOMAIN entries : entries[id].status = "void"
  /\ \A id \in DOMAIN entries : entries[id].status \in {"void", "open"}

\* minute intervals [startTime, endTime) of two stored entries intersect
Intersect(e1, e2) ==
  /\ timeToMinutes(e1.startTime) < timeToMinutes(e2.endTime)
  /\ timeToMinutes(e2.startTime) < timeToMinutes(e1.endTime)

\* a stored entry that counts for the overlap rule of (business, user, workDate)
Counts(e, business, user, workDate) ==
  /\ e.entryType = "manual"
  /\ e.status # "void"
  /\ e.business = business
  /\ e.user = user
  /\ e.workDate = workDate

OverlappingPair(docs) ==
  \E i, j \in DOMAIN docs :
    /\ i < j
    /\ Counts(docs[i], docs[j].business, docs[j].user, docs[j].workDate)
    /\ Counts(docs[j], docs[i].business, docs[i].user, docs[i].workDate)
    /\ Intersect(docs[i], docs[j])

C2_CreateOverlapping(a, x) ==
  /\ \E i \in DOMAIN entries :
       /\ Counts(entries[i], Tenant(a), IF x.target = NULL THEN a ELSE x.target,
                 x.workDate)
       /\ Intersect(entries[i], x)
  /\ CreateManualTimeEntry(Tenant(a), Actor(a), x.target, x.workDate, x.startTime,
                           x.endTime, x.breakMinutes)

C2_CreateRefused(a, x) ==
  \/ resp'.kind = "Conflict" /\ entries' = entries
  \/ ~C2_CreateOverlapping(a, x)

C2_UpdateOverlapping(a, id, x) ==
  /\ InTenantManual(a, id)
  /\ \E i \in DOMAIN entries \ {id} :
       LET next == [workDate |-> IF x.workDate = NULL THEN entries[id].workDate
                                 ELSE x.workDate,
                    startTime |-> IF x.startTime = UNDEF THEN entries[id].startTime
                                  ELSE x.startTime,
                    endTime |-> IF x.endTime = UNDEF THEN entries[id].endTime
                                ELSE x.endTime]
       IN  /\ Counts(entries[i], entries[id].business, entries[id].user,
                     next.workDate)
           /\ Intersect(entries[i], next)
  /\ UpdateManualTimeEntry(Tenant(a), Actor(a), id, x.workDate, x.startTime,
                           x.endTime, x.breakMinutes)

C2_UpdateRefused(a, id, x) ==
  \/ resp'.kind = "Conflict" /\ entries' = entries
  \/ ~C2_UpdateOverlapping(a, id, x)

\* C2: with requests served one at a time (create, update, submit, approve,
\* reject, void, bulk approve and bulk reject in any order), no two non-void
\* manual entries of the same business, user and workDate have intersecting
\* [startTime, endTime) intervals, and a create or update whose interval
\* intersects that of another such entry answers Conflict and changes nothing.
C2_NoManualOverlap ==
  [][ /\ ~OverlappingPair(entries) /\ ~OverlappingPair(entries')
      /\ \A a \in OverlapActors, x \in OverlapCreateArgs : C2_CreateRefused(a, x)
      /\ \A a \in OverlapActors, id \in OverlapIds, x \in OverlapUpdateBodies :
           C2_UpdateRefused(a, id, x)
    ]_vars

\* two entries of one user and date stored side by side, the second create or
\* update having been refused for its overlap
C2_Witness ==
  /\ resp.kind = "Conflict"
  /\ \E i, j \in DOMAIN entries :
       /\ i < j
       /\ Counts(entries[i], "B1", "m1", "2024-01-05")
       /\ Counts(entries[j], "B1", "m1", "2024-01-05")
       /\ entries[i].status = "draft" /\ entries[j].status = "draft"
       /\ entries[i].endTime = entries[j].startTime

\* C3: the overlap check and the insert of createManualTimeEntry are two
\* round-trips: a create that passed its check inserts its document and answers
\* ok whatever has been inserted since, so two interleaved creates of one user
\* and date with intersecting intervals both commit (C3_Witness).
C3_CreateCommitsUnchecked ==
  [][ \A p \in Procs :
        (inflight[p].pc = "create" /\ inflight'[p] = Idle)
        => /\ entries' = Append(entries, inflight[p].doc)
           /\ resp'.kind = "ok" ]_vars

\* two overlapping non-void entries of one business, user and workDate, both
\* inserted by creates, with no request left in flight
C3_Witness ==
  /\ \A p \in Procs : inflight[p] = Idle
  /\ \E i, j \in DOMAIN entries :
       /\ i < j
       /\ entries[i].status = "draft" /\ entries[j].status = "draft"
       /\ entries[i].business = entries[j].business
       /\ entries[i].user = entries[j].user
       /\ entries[i].workDate = entries[j].workDate
       /\ entries[i].startTime = T0900 /\ entries[i].endTime = T1200
       /\ entries[j].startTime = T1100 /\ entries[j].endTime = T1300

\* the step is a void of entry id by a manager-like actor of the entry's tenant
IsManagerVoid(id) ==
  \E a \in ManagerLikeUsers :
    /\ Tenant(a) = entries[id].business
    /\ VoidTimeEntry(Tenant(a), Actor(a), id)

\* approved has no outgoing transition at all
C6_ApprovedFrozen ==
  [][ \A id \in DOMAIN entries :
        entries[id].status = "approved" => entries'[id].status = "approved" ]_vars

\* C6: an approved entry keeps its status in every step but one: voidTimeEntry
\* called by a manager-like actor of the entry's tenant makes it void.  No call
\* by an employee, and no update, submit, approve, reject or bulk call, changes
\* the status of an approved entry.
C6_ApprovedLeavesOnlyByManagerVoid ==
  [][ \A id \in DOMAIN entries :
        entries[id].status = "approved" =>
          /\ entries'[id].status \in {"approved", "void"}
          /\ entries'[id].status = "void" => IsManagerVoid(id)
          /\ \A a \in Actors \ ManagerLikeUsers :
               VoidTimeEntry(Tenant(a), Actor(a), id) => entries' = entries
    ]_vars

\* an entry that was approved and then voided by the manager
C6_Witness ==
  \E id \in DOMAIN entries :
    /\ entries[id].status = "void"
    /\ entries[id].approvedBy = "m1"
    /\ entries[id].updatedBy = "m1"

Locked == {"submitted", "approved", "void"}

\* actor a passes the tenant, type and ownership checks on entry id
MayEdit(a, id) ==
  /\ InTenantManual(a, id)
  /\ a \in ManagerLikeUsers \/ entries[id].user = a

IsUpdate(a, id, x) ==
  UpdateManualTimeEntry(Tenant(a), Actor(a), id, x.workDate, x.startTime, x.endTime,
                        x.breakMinutes)

\* the edited fields of a stored entry
Hours(e) == <<e.workDate, e.startTime, e.endTime, e.breakMinutes>>

\* an update of a submitted, approved or void entry answers Conflict, whoever
\* calls
C7_ConflictForEveryActor ==
  [][ \A id \in DOMAIN entries :
        entries[id].status \in Locked =>
          \A a \in Actors, x \in UpdateBodies :
            IsUpdate(a, id, x) => resp'.kind = "Conflict" /\ entries' = entries
    ]_vars

C7_Update(id) ==
  /\ entries[id].status \in Locked =>
       \A a \in Actors :
         \/ /\ entries' = entries
            /\ resp'.kind = IF MayEdit(a, id) THEN "Conflict" ELSE "Forbidden"
         \/ \A x \in UpdateBodies : ~IsUpdate(a, id, x)
  /\ (resp'.kind = "ok" /\ entries[id].status \notin {"draft", "rejected"}) =>
       \A a \in Actors, x \in UpdateBodies : ~IsUpdate(a, id, x)

\* C7: updateManualTimeEntry succeeds only on an entry whose status is draft
\* or rejected.  On a submitted, approved or void entry it fails for every
\* actor and changes nothing: with Conflict for a manager-like actor of the
\* tenant and for the entry's own user, with Forbidden for an employee who is
\* not the entry's user and for an actor of another tenant.  With requests
\* served one at a time, workDate, startTime, endTime and breakMinutes of an
\* entry do not change in a step taken while its status is outside
\* {draft, rejected}.
C7_EditOnlyDraftOrRejected ==
  [][ \A id \in DOMAIN entries :
        /\ C7_Update(id)
        /\ entries[id].status \notin {"draft", "rejected"} =>
             Hours(entries'[id]) = Hours(entries[id])
    ]_vars

\* an entry edited while draft and then submitted, on which the update of an
\* actor of another tenant was refused
C7_Witness ==
  /\ resp.kind = "Forbidden"
  /\ \E id \in DOMAIN entries :
       /\ entries[id].status = "submitted"
       /\ entries[id].workDate = "2024-01-06"
       /\ entries[id].breakMinutes = 30

\* the stored times of an entry pass the validation of computeManualTotals
TotalsValid(e) ==
  /\ timeToMinutes(e.startTime) >= 0
  /\ timeToMinutes(e.endTime) > timeToMinutes(e.startTime)
  /\ e.breakMinutes <= timeToMinutes(e.endTime) - timeToMinutes(e.startTime)

C8_Submit(a, id, now) ==
  SubmitTimeEntry(Tenant(a), Actor(a), id, now) =>
    LET e == entries[id]
    IN  /\ resp'.kind = "ok" =>
             /\ e.status \in {"draft", "rejected"}
             /\ TotalsValid(e)
             /\ entries' = [entries EXCEPT ![id] =
                  [e EXCEPT !.status = "submitted", !.submittedAt = now,
                            !.updatedBy = a]]
        /\ resp'.kind # "ok" => entries' = entries
        /\ e.status \in Locked => resp'.kind # "ok"
        /\ MayEdit(a, id) =>
             resp'.kind = IF e.status \in Locked THEN "Conflict"
                          ELSE IF ~TotalsValid(e) THEN "BadRequest"
                          ELSE "ok"

C9_Void(a, id) ==
  ( InTenantManual(a, id) /\ VoidTimeEntry(Tenant(a), Actor(a), id) ) =>
    LET e == entries[id]
        voided == [entries EXCEPT ![id] =
                     [e EXCEPT !.status = "void", !.updatedBy = a]]
    IN  IF a \in ManagerLikeUsers
          THEN resp'.kind = "ok" /\ entries' = voided
        ELSE IF e.user # a
          THEN resp'.kind = "Forbidden" /\ entries' = entries
        ELSE IF e.status \in {"draft", "rejected"}
          THEN resp'.kind = "ok" /\ entries' = voided
        ELSE resp'.kind = "Conflict" /\ entries' = entries

\* C9: voidTimeEntry called by a manager-like actor on a manual entry of the
\* actor's tenant succeeds whatever the status (draft, submitted, approved,
\* rejected or void) and leaves the entry void.  Called by an employee it
\* answers Forbidden on another user's entry, succeeds on the employee's own
\* draft or rejected entry, and answers Conflict on the employee's own
\* submitted, approved or void entry; a refused void changes nothing.
C9_VoidByRole ==
  [][ \A a \in Actors, id \in EntryIds : C9_Void(a, id) ]_vars

\* the employee's own entry, submitted, which the employee could not void
C9_Witness ==
  /\ resp.kind = "Conflict"
  /\ \E id \in DOMAIN entries :
       /\ entries[id].user = "e1"
       /\ entries[id].status = "submitted"
       /\ entries[id].updatedBy = "e1"
  /\ \A id \in DOMAIN entries : entries[id].status # "void"

IsCreate(a, x) ==
  CreateManualTimeEntry(Tenant(a), Actor(a), x.target, x.workDate, x.startTime,
                        x.endTime, x.breakMinutes)

Employees == Actors \ ManagerLikeUsers

Refused == resp'.kind = "Forbidden" /\ entries' = entries

\* the part on employees: creating for, updating or submitting the entry of
\* another user is Forbidden and changes nothing
C10_Employee(a) ==
  \/ Refused
  \/ /\ \A x \in CreateArgs : (x.target # NULL /\ x.target # a) => ~IsCreate(a, x)
     /\ \A id \in EntryIds :
          (InTenantManual(a, id) /\ entries[id].user # a) =>
            /\ \A x \in UpdateBodies : ~IsUpdate(a, id, x)
            /\ \A now \in Dates : ~SubmitTimeEntry(Tenant(a), Actor(a), id, now)

\* the update and submit of a manager-like actor on any manual entry of the
\* tenant are not refused for the role, and the submit of an editable entry
\* succeeds
C10_ManagerEdits(a) ==
  \A id \in EntryIds :
    InTenantManual(a, id) =>
      /\ resp'.kind = "Forbidden" => \A x \in UpdateBodies : ~IsUpdate(a, id, x)
      /\ \A now \in Dates :
           SubmitTimeEntry(Tenant(a), Actor(a), id, now)
           => resp'.kind = IF entries[id].status \in {"draft", "rejected"}
                           THEN "ok" ELSE "Conflict"

\* the create arguments whose target is a user of the actor's tenant, active
\* or not
CreatesInTenant(a, statuses) ==
  { x \in CreateArgs :
      /\ x.target # NULL
      /\ UserTable[x.target].business = Tenant(a)
      /\ UserTable[x.target].status \in statuses }

\* a manager-like actor is never refused with Forbidden, whatever user of the
\* tenant the create, update or submit is for
C10_ManagerForAnyUser ==
  [][ \A a \in ManagerLikeUsers :
        /\ C10_ManagerEdits(a)
        /\ resp'.kind = "Forbidden" =>
             \A x \in CreatesInTenant(a, {"active", "disabled", "deleted"}) :
               ~IsCreate(a, x)
    ]_vars

\* C10: an employee's createManualTimeEntry with a targetUserId other than
\* the employee, and an employee's updateManualTimeEntry or submitTimeEntry on
\* another user's entry, answer Forbidden and change nothing.  A manager-like
\* actor is not refused for the role: update and submit work on the manual
\* entries of every user of the tenant, and create works for every user of the
\* tenant that is active; a create for a disabled or deleted user of the
\* tenant answers Forbidden, for the manager too.
C10_OwnEntriesOnly ==
  [][ /\ \A a \in Employees : C10_Employee(a)
      /\ \A a \in ManagerLikeUsers :
           /\ C10_ManagerEdits(a)
           /\ resp'.kind = "Forbidden" =>
                \A x \in CreatesInTenant(a, {"active"}) : ~IsCreate(a, x)
           /\ Refused \/ \A x \in CreatesInTenant(a, {"disabled", "deleted"}) :
                           ~IsCreate(a, x)
    ]_vars

\* an entry the manager created for the employee and submitted, on which the
\* employee's create for another user was then refused
C10_Witness ==
  /\ resp.kind = "Forbidden"
  /\ \E id \in DOMAIN entries :
       /\ entries[id].user = "e1"
       /\ entries[id].createdBy = "m1"
       /\ entries[id].status = "submitted"
       /\ entries[id].updatedBy = "m1"

\* the step is a call by actor a of one of the handlers that decide entries
\* or list the entries awaiting a decision
IsDecideCall(a) ==
  \/ \E id \in EntryIds, now \in Dates : ApproveTimeEntry(Tenant(a), Actor(a), id, now)
  \/ \E id \in EntryIds, r \in Reasons : RejectTimeEntry(Tenant(a), Actor(a), id, r)
  \/ \E ids \in IdLists, now \in Dates :
       BulkApproveTimeEntries(Tenant(a), Actor(a), ids, now)
  \/ \E ids \in IdLists, r \in BulkReasons :
       BulkRejectTimeEntries(Tenant(a), Actor(a), ids, r)
  \/ \E r \in PendingRanges, u \in PendingUsers :
       ListPendingTimeEntries(Tenant(a), Actor(a), r.from, r.to, u)

\* C11: approveTimeEntry, rejectTimeEntry, bulkApproveTimeEntries,
\* bulkRejectTimeEntries and listPendingTimeEntries called by an employee answer
\* Forbidden, return no document and change nothing; a step in which the
\* status of an entry becomes approved or rejected is a call of one of these
\* handlers by a manager-like actor of the entry's tenant.
C11_DecideByManagerLikeOnly ==
  [][ /\ \A a \in Employees :
           \/ Refused /\ resp'.rows = {}
           \/ ~IsDecideCall(a)
      /\ \A id \in DOMAIN entries :
           ( /\ entries'[id].status \in {"approved", "rejected"}
             /\ entries'[id].status # entries[id].status )
           => \E a \in ManagerLikeUsers :
                Tenant(a) = entries[id].business /\ IsDecideCall(a)
    ]_vars

\* the employee's own submitted entry, still submitted after a call of the
\* employee was refused for the role
C11_Witness ==
  /\ resp.kind = "Forbidden"
  /\ Len(entries) = 2
  /\ entries[2].user = "e1"
  /\ entries[2].createdBy = "e1"
  /\ entries[2].status = "submitted"
  /\ entries[2].updatedBy = "e1"

IsList(a, q) ==
  ListTimeEntries(Tenant(a), Actor(a), q.userId, q.from, q.to, q.status, q.mine)

IsSummary(a, q) ==
  GetTimeEntrySummary(Tenant(a), Actor(a), q.from, q.to, q.mine, q.userId)

\* the manual entries of user a in a's tenant within the range of query q
OwnRows(a, q) == listRows(entries, Tenant(a), a, q.from, q.to, NULL)

\* C12, as the claim states it: whatever mine and userId are, a
\* listTimeEntries or getTimeEntry call of an employee returns only entries
\* whose user is the employee, and a getTimeEntrySummary call of an employee
\* that succeeds aggregates exactly the employee's own entries of the range.
C12_EmployeeSeesOwnOnly ==
  [][ \A a \in Employees :
        /\ ( \/ \E q \in ReadQueries : IsList(a, q)
             \/ \E id \in ReadIds : GetTimeEntry(Tenant(a), Actor(a), id) )
           => \A i \in resp'.rows : entries[i].user = a
        /\ \A q \in ReadQueries :
             (IsSummary(a, q) /\ resp'.kind = "ok")
             => resp'.summary = foldSummary(entries, OwnRows(a, q),
                                            roundingMinutesOf(Tenant(a)))
    ]_vars

\* C12, what the handlers do: getTimeEntry and getTimeEntrySummary of an
\* employee show only the employee's own entries, and so does listTimeEntries
\* when mine is set or userId is given (another user's id is Forbidden); with
\* mine not set and no userId, listTimeEntries returns to the employee the
\* manual entries of every user of the tenant that match status and range.
C12_EmployeeReads ==
  [][ \A a \in Employees :
        /\ (\E id \in ReadIds : GetTimeEntry(Tenant(a), Actor(a), id))
           => \A i \in resp'.rows : entries[i].user = a
        /\ \A q \in ReadQueries :
             /\ (IsSummary(a, q) /\ resp'.kind = "ok")
                => resp'.summary = foldSummary(entries, OwnRows(a, q),
                                               roundingMinutesOf(Tenant(a)))
             /\ IsList(a, q) =>
                  IF q.mine \/ q.userId = a
                    THEN \A i \in resp'.rows : entries[i].user = a
                  ELSE IF q.userId # NULL
                    THEN resp'.kind = "Forbidden" /\ resp'.rows = {}
                  ELSE resp'.rows = listRows(entries, Tenant(a), NULL, q.from, q.to,
                                             q.status)
    ]_vars

\* the employee's entry and the manager's entry side by side, both returned by
\* one list call (only the manager's own entry is stored after the employee's)
C12_Witness ==
  /\ resp.kind = "ok"
  /\ resp.rows = {2, 3}
  /\ Len(entries) = 3
  /\ entries[2].user = "e1"
  /\ entries[3].user = "m1"

\* C13: getTimeEntry and getShift called on the id of a stored record whose
\* business is not the tenant of the call answer Forbidden, whatever the role
\* of the actor and whatever the type, user and status of the record: they
\* never answer NotFound for it and never return it.
C13_CrossTenantForbidden ==
  [][ \A a \in Actors :
        /\ \A id \in DOMAIN entries :
             entries[id].business # Tenant(a) =>
               \/ resp'.kind = "Forbidden" /\ resp'.rows = {}
               \/ ~GetTimeEntry(Tenant(a), Actor(a), id)
        /\ \A id \in DOMAIN shifts :
             shifts[id].business # Tenant(a) =>
               \/ resp'.kind = "Forbidden" /\ resp'.rows = {}
               \/ ~GetShift(Tenant(a), Actor(a), id)
    ]_vars

\* an entry and a shift of each tenant stored, and a fetch refused
C13_Witness ==
  /\ resp.kind = "Forbidden"
  /\ \E i, j \in DOMAIN entries :
       /\ entries[i].entryType = "manual" /\ entries[i].business = "B1"
       /\ entries[j].entryType = "manual" /\ entries[j].business = "B2"
  /\ \E i, j \in DOMAIN shifts :
       shifts[i].business = "B1" /\ shifts[j].business = "B2"

\* the stored entries, and shifts, that a step writes or inserts
EntryTouched ==
  { i \in DOMAIN entries' : i \notin DOMAIN entries \/ entries'[i] # entries[i] }

ShiftTouched ==
  { i \in DOMAIN shifts' : i \notin DOMAIN shifts \/ shifts'[i] # shifts[i] }

\* the step is a call by actor a of a handler of time entries
IsEntryCall(a) ==
  \/ \E x \in TenantCreateArgs : IsCreate(a, x)
  \/ \E id \in TenantEntryIds, now \in Dates :
       SubmitTimeEntry(Tenant(a), Actor(a), id, now)
  \/ \E now \in Dates : BulkApproveTimeEntries(Tenant(a), Actor(a), TenantIdList, now)
  \/ BulkRejectTimeEntries(Tenant(a), Actor(a), TenantIdList, ReasonOk)
  \/ \E q \in TenantQueries : IsList(a, q) \/ IsSummary(a, q)
  \/ \E id \in TenantEntryIds : GetTimeEntry(Tenant(a), Actor(a), id)
  \/ ListPendingTimeEntries(Tenant(a), Actor(a), NULL, NULL, NULL)

\* the step is a call by actor a of a handler of shifts
IsShiftCall(a) ==
  \/ \E x \in TenantShiftArgs :
       CreateShift(Tenant(a), Actor(a), x.userId, x.startAt, x.endAt)
  \/ \E id \in TenantShiftIds :
       CancelShift(Tenant(a), Actor(a), id) \/ GetShift(Tenant(a), Actor(a), id)
  \/ \E q \in TenantShiftQueries :
       ListShifts(Tenant(a), Actor(a), q.from, q.to, q.userId, q.status, q.mine,
                  q.includeOpen)

\* every entry the step returns, writes or inserts is of a's tenant
EntriesWithin(a) ==
  /\ \A i \in resp'.rows : i \in DOMAIN entries' /\ entries'[i].business = Tenant(a)
  /\ \A i \in EntryTouched : entries'[i].business = Tenant(a)
  /\ shifts' = shifts

ShiftsWithin(a) ==
  /\ \A i \in resp'.rows : i \in DOMAIN shifts' /\ shifts'[i].business = Tenant(a)
  /\ \A i \in ShiftTouched : shifts'[i].business = Tenant(a)
  /\ entries' = entries

\* the manual entries of a's tenant, of user u when u is given
TenantManual(a, u) ==
  { i \in DOMAIN entries :
      /\ entries[i].business = Tenant(a)
      /\ entries[i].entryType = "manual"
      /\ u # NULL => entries[i].user = u }

\* a summary folds the entries of the tenant only, and a create is refused
\* for an overlap only when a record of the tenant overlaps
C14_InTenantOnly(a) ==
  /\ (resp'.kind = "ok" /\ resp'.rows = {}) =>
       \A q \in TenantQueries :
         IsSummary(a, q)
         => resp'.summary = foldSummary(entries,
                                        TenantManual(a, IF q.mine THEN a ELSE q.userId),
                                        roundingMinutesOf(Tenant(a)))
  /\ resp'.kind = "Conflict" =>
       /\ \A x \in TenantCreateArgs :
            IsCreate(a, x)
            => \E i \in DOMAIN entries :
                 /\ Counts(entries[i], Tenant(a), createUserId(Actor(a), x.target),
                           x.workDate)
                 /\ Intersect(entries[i], x)
       /\ \A x \in TenantShiftArgs :
            CreateShift(Tenant(a), Actor(a), x.userId, x.startAt, x.endAt)
            => \E i \in DOMAIN shifts :
                 /\ shifts[i].business = Tenant(a)
                 /\ shifts[i].user = x.userId
                 /\ shifts[i].status # "canceled"
                 /\ shifts[i].startAt < parseDate(x.endAt)
                 /\ shifts[i].endAt > parseDate(x.startAt)

SubmittedListed(a, ids) ==
  { i \in DOMAIN entries :
      /\ i \in Range(ids)
      /\ InTenantManual(a, i)
      /\ entries[i].status = "submitted" }

\* the collection with f applied to the entries of S and nothing else changed
ChangedExactly(S, f(_)) ==
  /\ DOMAIN entries' = DOMAIN entries
  /\ \A i \in DOMAIN entries :
       entries'[i] = IF i \in S THEN f(entries[i]) ELSE entries[i]

C15_Approve(a, ids, now) ==
  LET f(e) == [e EXCEPT !.status = "approved", !.approvedBy = a, !.approvedAt = now,
                        !.updatedBy = a]
  IN  BulkApproveTimeEntries(Tenant(a), Actor(a), ids, now)
      => resp'.kind = "ok" /\ ChangedExactly(SubmittedListed(a, ids), f)

C15_Reject(a, ids) ==
  LET f(e) == [e EXCEPT !.status = "rejected", !.rejectionReason = <<"o", "k">>,
                        !.updatedBy = a]
  IN  BulkRejectTimeEntries(Tenant(a), Actor(a), ids, ReasonOk)
      => resp'.kind = "ok" /\ ChangedExactly(SubmittedListed(a, ids), f)

\* C15: bulkApproveTimeEntries, and bulkRejectTimeEntries with a valid reason,
\* called by a manager-like actor with a non-empty id list, always succeed and
\* change exactly the listed entries that are manual, submitted and of the
\* caller's tenant: those get the decision and its audit fields; every other
\* listed id (unknown, of another tenant, not manual, or draft, approved,
\* rejected or void) and every entry not listed is left as it was.
C15_BulkChangesExactlyMatched ==
  [][ \A a \in ManagerLikeUsers, ids \in IdLists \ {<< >>} :
        /\ \A now \in Dates : C15_Approve(a, ids, now)
        /\ C15_Reject(a, ids)
    ]_vars

\* a bulk approval by the manager of the list <<1, 2, 3>> or of entry 2 alone:
\* the submitted entry 2 approved, the legacy entry 1 as it was
C15_Witness ==
  /\ resp.kind = "ok" /\ resp.matched = 1 /\ resp.rows = {2}
  /\ Len(entries) = 2
  /\ entries[1] = LegacyClockEntry
  /\ entries[2].status = "approved"
  /\ entries[2].approvedBy = "m1"
  /\ entries[2].updatedBy = "m1"

C16_Counts(a, ids) ==
  /\ resp'.modified <= resp'.matched
  /\ resp'.matched <= Len(ids)
  /\ resp'.matched = Cardinality(SubmittedListed(a, ids))
  /\ resp'.modified = Cardinality({ i \in DOMAIN entries : entries'[i] # entries[i] })

\* C16: a bulkApproveTimeEntries or bulkRejectTimeEntries call that succeeds
\* returns counts with modified <= matched <= len(entryIds), where matched is
\* the number of entries that are listed, manual, submitted and of the tenant
\* when the update applies, each counted once however often its id is listed,
\* and modified is the number of entries the call changed.
C16_BulkCounts ==
  [][ resp'.kind = "ok" =>
        \A a \in Actors, ids \in IdLists :
          \/ C16_Counts(a, ids)
          \/ /\ \A now \in Dates : ~BulkApproveTimeEntries(Tenant(a), Actor(a), ids, now)
             /\ \A r \in BulkReasons :
                  ~BulkRejectTimeEntries(Tenant(a), Actor(a), ids, r)
    ]_vars

\* a bulk rejection that matched and changed one entry (the list <<2, 2>>
\* names it twice)
C16_Witness ==
  /\ resp.kind = "ok" /\ resp.matched = 1 /\ resp.modified = 1
  /\ Len(entries) = 2
  /\ entries[2].status = "rejected"
  /\ entries[2].rejectionReason = <<"o", "k">>

----------------------------------------------------------------------------
(* C17 *)

\* the status edges of the entry state machine, and staying put
EntryEdges ==
  { <<"draft", "submitted">>, <<"rejected", "submitted">>,
    <<"submitted", "approved">>, <<"submitted", "rejected">>,
    <<"draft", "void">>, <<"rejected", "void">>, <<"submitted", "void">>,
    <<"approved", "void">> }

\* a step of a bulk request of the manager on the raced entry
IsRaceBulk ==
  \/ \E now \in Dates :
       BulkApproveTimeEntries(Tenant("m1"), Actor("m1"), <<BulkRaceId>>, now)
  \/ BulkRejectTimeEntries(Tenant("m1"), Actor("m1"), <<BulkRaceId>>, ReasonOk)

\* C17, as stated: in every interleaving of the bulk requests with
\* single-entry submit, approve, reject, void and update requests, the bulk
\* update changes only entries that are submitted at the instant it applies,
\* and an entry the bulk update has just decided (the one its response, not
\* yet sent, reports) makes no status change outside the state machine, such
\* as approved -> rejected
C17_NoTransitionOutsideStateMachine ==
  [][ /\ (entries' # entries /\ IsRaceBulk)
           => \A i \in 1..Len(entries) :
                entries'[i] # entries[i] => entries[i].status = "submitted"
      /\ resp.matched > 0
           => \A i \in resp.rows :
                entries'[i].status # entries[i].status
                  => <<entries[i].status, entries'[i].status>> \in EntryEdges
    ]_vars

\* C17, the part that holds: a bulk request that applies while single-entry
\* requests are between their load and their save changes only entries that
\* are submitted at that instant, and leaves them approved or rejected
C17_BulkAppliesToSubmittedOnly ==
  [][ (entries' # entries /\ inflight' = inflight /\ IsRaceBulk)
        => \A i \in 1..Len(entries) :
             entries'[i] # entries[i]
               => /\ entries[i].status = "submitted"
                  /\ entries'[i].status \in {"approved", "rejected"} ]_vars

\* a bulk request has decided the raced entry while a single-entry request
\* that loaded it as submitted still waits to save
C17_Witness ==
  /\ Len(entries) >= BulkRaceId
  /\ entries[BulkRaceId].status \in {"approved", "rejected"}
  /\ \E p \in Procs :
       /\ inflight[p].pc = "save"
       /\ inflight[p].loaded.status = "submitted"
       /\ inflight[p].doc.status # entries[BulkRaceId].status
       /\ inflight[p].doc.status \in {"approved", "rejected"}

----------------------------------------------------------------------------
(* C18 *)

\* the reasons of the requests that are missing or empty, or shorter than two
\* characters once trimmed
C18_BadReasons == { << >>, ReasonShort }

\* ReasonOk without the blanks around it
C18_Trimmed == <<"o", "k">>

\* C18, as stated: rejectTimeEntry and bulkRejectTimeEntries answer BadRequest
\* and change nothing whenever the reason is missing, empty or shorter than two
\* characters after trimming, whoever calls
C18_BadRequestWhenever ==
  [][ \A a \in Actors, r \in C18_BadReasons :
        \/ resp'.kind = "BadRequest" /\ entries' = entries
        \/ /\ \A id \in EntryIds : ~RejectTimeEntry(Tenant(a), Actor(a), id, r)
           /\ \A ids \in IdLists : ~BulkRejectTimeEntries(Tenant(a), Actor(a), ids, r)
    ]_vars

\* what a reject with a bad reason answers: the role is tested first
C18_Refusal(a) == IF a \in ManagerLikeUsers THEN "BadRequest" ELSE "Forbidden"

\* C18: rejectTimeEntry and bulkRejectTimeEntries with a reason that is
\* missing, empty or shorter than two characters after trimming fail and
\* change nothing, whatever the status of the targeted entries: with
\* BadRequest for a manager-like caller, with Forbidden for any other caller.
\* On success the rejectionReason stored on every entry the call rejected is
\* the trimmed reason.
C18_BadReasonRefused ==
  [][ /\ \A a \in Actors, r \in C18_BadReasons :
           \/ resp'.kind = C18_Refusal(a) /\ entries' = entries
           \/ /\ \A id \in EntryIds : ~RejectTimeEntry(Tenant(a), Actor(a), id, r)
              /\ \A ids \in IdLists :
                   ~BulkRejectTimeEntries(Tenant(a), Actor(a), ids, r)
      /\ resp'.kind = "ok" =>
           \A a \in Actors :
             \/ \A i \in 1..Len(entries) :
                  entries'[i] # entries[i]
                    => /\ entries'[i].status = "rejected"
                       /\ entries'[i].rejectionReason = C18_Trimmed
             \/ /\ \A id \in EntryIds :
                     ~RejectTimeEntry(Tenant(a), Actor(a), id, ReasonOk)
                /\ \A ids \in IdLists :
                     ~BulkRejectTimeEntries(Tenant(a), Actor(a), ids, ReasonOk)
    ]_vars

\* an entry rejected with the trimmed reason stored, and a later request that
\* was answered BadRequest
C18_Witness ==
  /\ resp.kind = "BadRequest"
  /\ \E i \in 1..Len(entries) :
       /\ entries[i].status = "rejected"
       /\ entries[i].rejectionReason = C18_Trimmed

----------------------------------------------------------------------------
(* C19 *)

\* the status edges of a shift
ShiftEdges ==
  { <<"draft", "published">>, <<"draft", "canceled">>, <<"published", "canceled">> }

IsPublish(id) ==
  \E a \in ShiftActors, now \in Dates : PublishShift(Tenant(a), Actor(a), id, now)

IsCancel(id) == \E a \in ShiftActors : CancelShift(Tenant(a), Actor(a), id)

\* C19: a shift is created with status draft, and its status changes only by
\* publish (draft -> published) and by cancel (draft -> canceled, published ->
\* canceled): a published shift never returns to draft, a canceled shift never
\* leaves canceled, and update, assign and unassign leave the status as it is.
C19_ShiftStatusEdges ==
  [][ /\ \A id \in (DOMAIN shifts') \ (DOMAIN shifts) : shifts'[id].status = "draft"
      /\ \A id \in DOMAIN shifts :
           \/ shifts'[id].status = shifts[id].status
           \/ /\ <<shifts[id].status, shifts'[id].status>> \in ShiftEdges
              /\ IF shifts'[id].status = "published" THEN IsPublish(id)
                 ELSE IsCancel(id)
    ]_vars

\* a shift canceled after it was published, next to one that is published
C19_Witness ==
  \E i, j \in DOMAIN shifts :
    /\ shifts[i].status = "canceled" /\ shifts[i].publishedAt # NULL
    /\ shifts[j].status = "published"

----------------------------------------------------------------------------
(* C20 *)

\* [startAt, endAt) of a shift and the interval from s to e intersect
ShiftIntersects(shift, s, e) == shift.startAt < e /\ s < shift.endAt

\* a stored shift that counts for the overlap rule of (business, user)
ShiftCounts(shift, business, user) ==
  /\ user # NULL
  /\ shift.status # "canceled"
  /\ shift.business = business
  /\ shift.user = user

OverlappingShifts(docs) ==
  \E i, j \in DOMAIN docs :
    /\ i < j
    /\ ShiftCounts(docs[i], docs[j].business, docs[j].user)
    /\ docs[j].status # "canceled"
    /\ ShiftIntersects(docs[i], docs[j].startAt, docs[j].endAt)

\* a shift other than id that counts for (business, user) and intersects s..e
ShiftInTheWay(id, business, user, s, e) ==
  \E i \in DOMAIN shifts \ {id} :
    ShiftCounts(shifts[i], business, user) /\ ShiftIntersects(shifts[i], s, e)

ShiftManagers == ShiftActors \cap ManagerLikeUsers

\* a live shift of the actor's tenant
InTenantLive(a, id) ==
  /\ id \in DOMAIN shifts
  /\ shifts[id].business = Tenant(a)
  /\ shifts[id].status # "canceled"

C20_CreateOverlapping(a, x) ==
  /\ parseDate(x.startAt) >= 0 /\ parseDate(x.endAt) > parseDate(x.startAt)
  /\ ShiftInTheWay(0, Tenant(a), x.userId, parseDate(x.startAt), parseDate(x.endAt))
  /\ CreateShift(Tenant(a), Actor(a), x.userId, x.startAt, x.endAt)

C20_UpdateOverlapping(a, id, x) ==
  /\ InTenantLive(a, id)
  /\ LET s == IF x.startAt = NULL THEN shifts[id].startAt ELSE parseDate(x.startAt)
         e == IF x.endAt = NULL THEN shifts[id].endAt ELSE parseDate(x.endAt)
         u == IF x.userId = NOARG THEN shifts[id].user ELSE x.userId
     IN  s >= 0 /\ e > s /\ ShiftInTheWay(id, Tenant(a), u, s, e)
  /\ UpdateShift(Tenant(a), Actor(a), id, x.userId, x.startAt, x.endAt)

C20_AssignOverlapping(a, id, u) ==
  /\ InTenantLive(a, id)
  /\ ShiftInTheWay(id, Tenant(a), u, shifts[id].startAt, shifts[id].endAt)
  /\ AssignShift(Tenant(a), Actor(a), id, u)

\* C20: with requests served one at a time (create, update, assign, unassign,
\* publish and cancel of shifts in any order), no two non-canceled shifts of
\* the same business assigned to the same user have intersecting
\* [startAt, endAt) intervals; a create, an update (one that changes the user
\* included) or an assign by a manager that would produce such a pair answers
\* Conflict and changes nothing.
C20_NoShiftOverlap ==
  [][ /\ ~OverlappingShifts(shifts) /\ ~OverlappingShifts(shifts')
      /\ \/ resp'.kind = "Conflict" /\ shifts' = shifts
         \/ \A a \in ShiftManagers :
              /\ \A x \in ShiftCreateArgs : ~C20_CreateOverlapping(a, x)
              /\ \A id \in ShiftIds :
                   /\ \A x \in ShiftUpdateArgs : ~C20_UpdateOverlapping(a, id, x)
                   /\ \A u \in ShiftUsers : ~C20_AssignOverlapping(a, id, u)
    ]_vars

\* an open shift kept beside a shift of e1 that it intersects, the request
\* that would have given both to e1 having been answered Conflict
C20_Witness ==
  /\ resp.kind = "Conflict"
  /\ \E i, j \in DOMAIN shifts :
       /\ shifts[i].business = "B1" /\ shifts[j].business = "B1"
       /\ shifts[i].status # "canceled" /\ shifts[j].status # "canceled"
       /\ shifts[i].user = "e1" /\ shifts[j].user = NULL
       /\ ShiftIntersects(shifts[i], shifts[j].startAt, shifts[j].endAt)

----------------------------------------------------------------------------
(* C21 *)

\* C21: cancelShift is idempotent: called by a manager-like actor of the
\* tenant on a shift that is already canceled it answers that shift without
\* an error and changes no field of it, updatedBy included, so the shifts
\* after the second cancel are the shifts after the first.
C21_CancelIdempotent ==
  [][ \A a \in CancelActors, id \in ShiftIds :
        \/ resp'.kind = "ok" /\ resp'.rows = {id} /\ shifts' = shifts
        \/ ~( /\ id \in DOMAIN shifts
              /\ shifts[id].status = "canceled"
              /\ CancelShift(Tenant(a), Actor(a), id) )
    ]_vars

\* a shift created and canceled by the manager, the cancel answered, beside
\* a shift the owner touched last
C21_Witness ==
  /\ resp.kind = "ok"
  /\ \E id \in resp.rows, j \in DOMAIN shifts :
       /\ id \in DOMAIN shifts
       /\ shifts[id].status = "canceled"
       /\ shifts[id].updatedBy = "m1"
       /\ shifts[j].updatedBy = "o1"

----------------------------------------------------------------------------
(* C22 *)

Canceled(id) == id \in DOMAIN shifts /\ shifts[id].status = "canceled"

\* a step of update, publish or unassign by a on the shift id
IsShiftEdit(a, id) ==
  \/ \E x \in ShiftUpdateArgs :
       UpdateShift(Tenant(a), Actor(a), id, x.userId, x.startAt, x.endAt)
  \/ \E now \in Dates : PublishShift(Tenant(a), Actor(a), id, now)
  \/ UnassignShift(Tenant(a), Actor(a), id)

C22_Refusal(a, id) ==
  IF a \in ManagerLikeUsers /\ shifts[id].business = Tenant(a) THEN "Conflict"
  ELSE "Forbidden"

\* what assignShift on a canceled shift answers: the userId is tested after
\* the role and before the shift is loaded
C22_AssignRefusal(a, id, u) ==
  IF a \in ManagerLikeUsers /\ u = NULL THEN "BadRequest" ELSE C22_Refusal(a, id)

----------------------------------------------------------------------------
(* C23 *)

\* a create of an open shift with endAt after startAt
C23_OpenCreate(a, x) ==
  /\ x.userId = NULL
  /\ parseDate(x.startAt) >= 0 /\ parseDate(x.endAt) > parseDate(x.startAt)
  /\ CreateShift(Tenant(a), Actor(a), x.userId, x.startAt, x.endAt)

\* an update of a live shift of the tenant that leaves it without a user
C23_OpenUpdate(a, id, x) ==
  /\ InTenantLive(a, id)
  /\ (IF x.userId = NOARG THEN shifts[id].user ELSE x.userId) = NULL
  /\ UpdateShift(Tenant(a), Actor(a), id, x.userId, x.startAt, x.endAt)

\* the shift id is stored without a user after the step
C23_Open(id) == id \in DOMAIN shifts' /\ shifts'[id].user = NULL

\* C23: open shifts skip the overlap check: createShift by a manager-like
\* actor with endAt > startAt and no user succeeds and stores an open draft
\* shift whatever shifts exist, and an updateShift or unassignShift of a live
\* shift that leaves it without a user succeeds, whatever open or assigned
\* shifts its interval intersects.
C23_OpenShiftsSkipOverlap ==
  [][ \A a \in ShiftManagers :
        /\ \A x \in ShiftCreateArgs :
             \/ /\ resp'.kind = "ok" /\ Len(shifts') = Len(shifts) + 1
                /\ shifts'[Len(shifts')].status = "draft"
                /\ shifts'[Len(shifts')].user = NULL
             \/ ~C23_OpenCreate(a, x)
        /\ \A id \in ShiftIds :
             /\ \A x \in ShiftUpdateArgs :
                  \/ resp'.kind = "ok" /\ C23_Open(id)
                  \/ ~C23_OpenUpdate(a, id, x)
             /\ \/ resp'.kind = "ok" /\ C23_Open(id)
                \/ ~(InTenantLive(a, id) /\ UnassignShift(Tenant(a), Actor(a), id))
    ]_vars

\* open live shifts of B1, as many as a run creates, that all intersect
C23_Witness ==
  /\ resp.kind = "ok"
  /\ Len(shifts) = MaxShifts
  /\ \A i, j \in DOMAIN shifts :
       /\ shifts[i].business = "B1"
       /\ shifts[i].user = NULL
       /\ shifts[i].status # "canceled"
       /\ ShiftIntersects(shifts[i], shifts[j].startAt, shifts[j].endAt)

----------------------------------------------------------------------------
(* C24 *)

\* the shift is open and published
OpenPublished(shift) == shift.user = NULL /\ shift.status = "published"

\* the shifts the employee a is to see for the query q: those of the tenant
\* assigned to a and, with includeOpen, the open published ones, within the
\* range of the query
C24_Visible(a, q) ==
  { i \in DOMAIN shifts :
      /\ shifts[i].business = Tenant(a)
      /\ \/ shifts[i].user = a
         \/ q.includeOpen /\ OpenPublished(shifts[i])
      /\ q.from # NULL => shifts[i].startAt >= parseDate(q.from) }

\* C24: for an employee, listShifts returns exactly the shifts of the tenant
\* that are assigned to the employee plus, only with includeOpen, the open
\* published shifts (within the from/to range asked for), whatever userId,
\* status and mine are; getShift of an existing shift answers it when the
\* shift is of the tenant and is the employee's or open and published, and
\* Forbidden otherwise.
C24_EmployeeShiftView ==
  [][ \A a \in ShiftReaders \cap Employees :
        /\ \A q \in ReadShiftQueries :
             \/ resp'.kind = "ok" /\ resp'.rows = C24_Visible(a, q)
             \/ ~ListShifts(Tenant(a), Actor(a), q.from, q.to, q.userId, q.status,
                            q.mine, q.includeOpen)
        /\ \A id \in DOMAIN shifts :
             \/ ~GetShift(Tenant(a), Actor(a), id)
             \/ IF /\ shifts[id].business = Tenant(a)
                   /\ (shifts[id].user = a \/ OpenPublished(shifts[id]))
                  THEN resp'.kind = "ok" /\ resp'.rows = {id}
                  ELSE resp'.kind = "Forbidden"
    ]_vars

\* the employee was answered his own shift and not the open draft one beside it
C24_Witness ==
  /\ resp.kind = "ok"
  /\ \E i, j \in DOMAIN shifts :
       /\ resp.rows = {i}
       /\ shifts[i].business = "B1" /\ shifts[i].user = "e1"
       /\ shifts[j].business = "B1" /\ shifts[j].user = NULL
       /\ shifts[j].status = "draft"

----------------------------------------------------------------------------
(* C25 *)

\* a step of one of the six shift mutations called by a
IsShiftMutation(a) ==
  \/ \E x \in ShiftCreateArgs :
       CreateShift(Tenant(a), Actor(a), x.userId, x.startAt, x.endAt)
  \/ \E id \in ShiftIds :
       \/ IsShiftEdit(a, id)
       \/ CancelShift(Tenant(a), Actor(a), id)
       \/ \E u \in ShiftUsers : AssignShift(Tenant(a), Actor(a), id, u)

\* C25: the shift mutations are for managers and owners only: createShift,
\* updateShift, publishShift, cancelShift, assignShift and unassignShift
\* called by an employee answer Forbidden and leave the set of shifts and
\* every field of every shift as they are.
C25_EmployeeNeverChangesShifts ==
  [][ \A a \in ShiftActors \cap Employees :
        \/ resp'.kind = "Forbidden" /\ shifts' = shifts
        \/ ~IsShiftMutation(a)
    ]_vars

\* a request was answered Forbidden while every stored shift is of B1, whose
\* manager is refused nothing there
C25_Witness ==
  /\ resp.kind = "Forbidden"
  /\ Len(shifts) = MaxShifts
  /\ \A i \in DOMAIN shifts : shifts[i].business = "B1"
  /\ \E i \in DOMAIN shifts : shifts[i].status = "published" /\ shifts[i].user = NULL

----------------------------------------------------------------------------
(* C26 *)

\* the points of the grid in minutes of the day, and in hours as stored on
\* shifts
C26_Minutes == <<540, 660, 720, 780>>
C26_Hours == <<9, 11, 12, 13>>

\* the position on the grid of a stored HH:mm
C26_At(hhmm) == CHOOSE i \in DOMAIN GridTimes : GridTimes[i] = hhmm

\* the reference predicate: existing.start < newEnd and existing.end > newStart
C26_Reference(start, end, newStart, newEnd) == start < newEnd /\ end > newStart

\* a stored manual entry of m1 that the reference predicate puts in the way of
\* the interval p
C26_EntryInTheWay(p) ==
  \E i \in DOMAIN entries :
    /\ entries[i].entryType = "manual"
    /\ C26_Reference(C26_Minutes[C26_At(entries[i].startTime)],
                     C26_Minutes[C26_At(entries[i].endTime)],
                     C26_Minutes[p[1]], C26_Minutes[p[2]])

C26_ShiftInTheWay(p) ==
  \E i \in DOMAIN shifts :
    C26_Reference(shifts[i].startAt, shifts[i].endAt, C26_Hours[p[1]], C26_Hours[p[2]])

\* C26: the overlap decision is half-open interval intersection: a create of
\* a time entry (in minutes) or of a shift (in timestamps) for [newStart,
\* newEnd) answers Conflict exactly when a record of the same user that counts
\* has start < newEnd and end > newStart, and succeeds otherwise; intervals
\* that touch at an endpoint do not conflict.
C26_HalfOpenIntersection ==
  [][ \A p \in GridPairs :
        /\ \/ resp'.kind = (IF C26_EntryInTheWay(p) THEN "Conflict" ELSE "ok")
           \/ ~CreateManualTimeEntry("B1", Actor("m1"), NULL, "2024-01-05",
                                     GridTimes[p[1]], GridTimes[p[2]], {})
        /\ \/ resp'.kind = (IF C26_ShiftInTheWay(p) THEN "Conflict" ELSE "ok")
           \/ ~CreateShift("B1", Actor("m1"), "e1", GridDates[p[1]], GridDates[p[2]])
    ]_vars

\* entries 09:00-11:00 and 11:00-13:00 stored side by side, shifts 09-11 and
\* 11-13 as well, and a create that was answered Conflict
C26_Witness ==
  /\ resp.kind = "Conflict"
  /\ \E i, j \in DOMAIN entries :
       /\ entries[i].entryType = "manual" /\ entries[j].entryType = "manual"
       /\ entries[i].startTime = T0900 /\ entries[i].endTime = T1100
       /\ entries[j].startTime = T1100 /\ entries[j].endTime = T1300
  /\ \E i, j \in DOMAIN shifts :
       /\ shifts[i].startAt = 9 /\ shifts[i].endAt = 11
       /\ shifts[j].startAt = 11 /\ shifts[j].endAt = 13

----------------------------------------------------------------------------
(* C27 *)

\* the interval and date entry id has once the body x is applied
C27_Next(id, x) ==
  [workDate |-> IF x.workDate = NULL THEN entries[id].workDate ELSE x.workDate,
   startTime |-> IF x.startTime = UNDEF THEN entries[id].startTime ELSE x.startTime,
   endTime |-> IF x.endTime = UNDEF THEN entries[id].endTime ELSE x.endTime]

\* an entry other than id that counts and intersects what id is to become
C27_OtherEntryInTheWay(id, x) ==
  \E i \in DOMAIN entries \ {id} :
    /\ Counts(entries[i], entries[id].business, entries[id].user,
              C27_Next(id, x).workDate)
    /\ Intersect(entries[i], C27_Next(id, x))

\* the answer to an edit: Conflict for another record in the way, else ok
C27_Answer(inTheWay) == IF inTheWay THEN "Conflict" ELSE "ok"

C27_UpdateEntry(a, id, x) ==
  \/ resp'.kind = C27_Answer(C27_OtherEntryInTheWay(id, x))
  \/ ~UpdateManualTimeEntry(Tenant(a), Actor(a), id, x.workDate, x.startTime,
                            x.endTime, x.breakMinutes)

C27_UpdateShift(a, id, x) ==
  LET s == IF x.startAt = NULL THEN shifts[id].startAt ELSE parseDate(x.startAt)
      e == IF x.endAt = NULL THEN shifts[id].endAt ELSE parseDate(x.endAt)
      u == IF x.userId = NOARG THEN shifts[id].user ELSE x.userId
  IN  \/ resp'.kind = C27_Answer(ShiftInTheWay(id, Tenant(a), u, s, e))
      \/ ~UpdateShift(Tenant(a), Actor(a), id, x.userId, x.startAt, x.endAt)

C27_AssignShift(a, id, u) ==
  \/ resp'.kind = C27_Answer(ShiftInTheWay(id, Tenant(a), u, shifts[id].startAt,
                                           shifts[id].endAt))
  \/ ~AssignShift(Tenant(a), Actor(a), id, u)

\* C27: a record being edited is left out of its own overlap check: an
\* updateManualTimeEntry of a draft entry, an updateShift and an assignShift of
\* a live shift with valid arguments answer Conflict only when a record other
\* than the edited one counts and intersects the new interval, and succeed
\* otherwise; so an update that changes no field and an assign to the user the
\* shift already has succeed.
C27_SelfExcluded ==
  [][ \A a \in OverlapActors :
        /\ \A id \in DOMAIN entries \cap OverlapIds :
             \A x \in OverlapUpdateBodies : C27_UpdateEntry(a, id, x)
        /\ \A id \in DOMAIN shifts :
             /\ \A x \in ShiftUpdateArgs : C27_UpdateShift(a, id, x)
             /\ \A u \in ShiftUsers \ {NULL} : C27_AssignShift(a, id, u)
    ]_vars

\* the request answered last is a successful update of the first manual
\* entry (a later entry exists and no shift does, so the id answered is not
\* that of a create); it stores 09:00-11:00 beside an entry on 11:00-13:00, so
\* it stored 09:00-11:00 before the update as well
C27_Witness ==
  /\ resp.kind = "ok"
  /\ resp.rows = {Len(InitEntries) + 1}
  /\ Len(entries) > Len(InitEntries) + 1
  /\ Len(shifts) = 0
  /\ entries[Len(InitEntries) + 1].startTime = T0900
  /\ entries[Len(InitEntries) + 1].endTime = T1100
  /\ entries[Len(InitEntries) + 2].startTime = T1100

----------------------------------------------------------------------------
(* C28 *)

\* the statuses in which a record blocks an intersecting one of its user
EntryBlocking == {"draft", "submitted", "approved", "rejected"}
ShiftBlocking == {"draft", "published"}

\* an entry other than id, in a blocking status, of the user and date of what
\* is asked for, whose interval intersects it
C28_EntryBlocks(id, user, next) ==
  \E i \in DOMAIN entries \ {id} :
    /\ entries[i].entryType = "manual"
    /\ entries[i].status \in EntryBlocking
    /\ entries[i].business = "B1" /\ entries[i].user = user
    /\ entries[i].workDate = next.workDate
    /\ Intersect(entries[i], next)

C28_ShiftBlocks(id, user, s, e) ==
  \E i \in DOMAIN shifts \ {id} :
    /\ user # NULL
    /\ shifts[i].status \in ShiftBlocking
    /\ shifts[i].business = "B1" /\ shifts[i].user = user
    /\ ShiftIntersects(shifts[i], s, e)

C28_Answer(blocked) == IF blocked THEN "Conflict" ELSE "ok"

C28_Entries(a) ==
  /\ \A x \in OverlapCreateArgs :
       \/ resp'.kind = C28_Answer(C28_EntryBlocks(0, a, x))
       \/ ~CreateManualTimeEntry(Tenant(a), Actor(a), x.target, x.workDate,
                                 x.startTime, x.endTime, x.breakMinutes)
  /\ \A id \in DOMAIN entries \cap OverlapIds, x \in OverlapUpdateBodies :
       \/ entries[id].status \notin {"draft", "rejected"}
       \/ resp'.kind = C28_Answer(C28_EntryBlocks(id, a, C27_Next(id, x)))
       \/ ~UpdateManualTimeEntry(Tenant(a), Actor(a), id, x.workDate, x.startTime,
                                 x.endTime, x.breakMinutes)

C28_Shifts(a) ==
  /\ \A x \in ShiftCreateArgs :
       \/ parseDate(x.endAt) <= parseDate(x.startAt)
       \/ resp'.kind = C28_Answer(C28_ShiftBlocks(0, x.userId, parseDate(x.startAt),
                                                  parseDate(x.endAt)))
       \/ ~CreateShift(Tenant(a), Actor(a), x.userId, x.startAt, x.endAt)
  /\ \A id \in DOMAIN shifts :
       \/ shifts[id].status = "canceled"
       \/ shifts[id].business # Tenant(a)
       \/ /\ \A x \in ShiftUpdateArgs :
               LET s == IF x.startAt = NULL THEN shifts[id].startAt
                        ELSE parseDate(x.startAt)
                   e == IF x.endAt = NULL THEN shifts[id].endAt ELSE parseDate(x.endAt)
                   u == IF x.userId = NOARG THEN shifts[id].user ELSE x.userId
               IN  \/ resp'.kind = C28_Answer(C28_ShiftBlocks(id, u, s, e))
                   \/ ~UpdateShift(Tenant(a), Actor(a), id, x.userId, x.startAt, x.endAt)
          /\ \A u \in ShiftUsers \ {NULL} :
               \/ resp'.kind = C28_Answer(C28_ShiftBlocks(id, u, shifts[id].startAt,
                                                          shifts[id].endAt))
               \/ ~AssignShift(Tenant(a), Actor(a), id, u)

\* C28: void time entries and canceled shifts do not count for the overlap
\* rule: a create or update of a time entry, and a create, update or assign
\* of a shift, by the manager with valid arguments on a record that may be
\* edited, is answered Conflict exactly when a record of the same user in
\* another status (draft, submitted, approved, rejected for entries; draft,
\* published for shifts) intersects the interval asked for, and succeeds when
\* the only records that intersect it are void or canceled.
C28_VoidAndCanceledExcluded ==
  [][ \A a \in OverlapActors : C28_Entries(a) /\ C28_Shifts(a) ]_vars

\* a void entry beside an entry of the same user and date, not void, whose
\* interval intersects it: the second was created or moved there after the
\* void
C28_Witness ==
  \E i, j \in DOMAIN entries :
    /\ entries[i].entryType = "manual" /\ entries[j].entryType = "manual"
    /\ entries[i].status = "void"
    /\ entries[j].status \in EntryBlocking
    /\ entries[i].user = entries[j].user /\ entries[i].workDate = entries[j].workDate
    /\ Intersect(entries[i], entries[j])

----------------------------------------------------------------------------
(* C29 *)

\* the minutes since midnight of TotalsTimes, written out
C29_Minutes == <<0, 540, 570, 1439>>

C29_IsTime(hhmm) == \E i \in DOMAIN TotalsTimes : TotalsTimes[i] = hhmm

C29_At(hhmm) == CHOOSE i \in DOMAIN TotalsTimes : TotalsTimes[i] = hhmm

C29_Span(startTime, endTime) ==
  C29_Minutes[C29_At(endTime)] - C29_Minutes[C29_At(startTime)]

\* valid HH:mm start and end with end > start and 0 <= break <= end - start
C29_Valid(startTime, endTime, break) ==
  /\ C29_IsTime(startTime) /\ C29_IsTime(endTime)
  /\ C29_Span(startTime, endTime) > 0
  /\ 0 <= break /\ break <= C29_Span(startTime, endTime)

\* end <= start, or a break longer than end - start
C29_Failing(startTime, endTime, break) ==
  /\ C29_IsTime(startTime) /\ C29_IsTime(endTime)
  /\ \/ C29_Span(startTime, endTime) <= 0
     \/ break > C29_Span(startTime, endTime)

\* the break of a request body: 0 when absent
C29_Break(opt) == IF opt = {} THEN 0 ELSE CHOOSE b \in opt : TRUE

\* the failure is re-signalled as BadRequest and nothing is persisted
C29_Refused == resp'.kind = "BadRequest" /\ entries' = entries

\* getTimeEntry returns what computeManualTotals returns for the stored fields
C29_Get(id) ==
  LET e == entries[id]
  IN  \/ ~GetTimeEntry("B1", Actor("m1"), id)
      \/ /\ resp'.kind = "ok"
         /\ C29_Valid(e.startTime, e.endTime, e.breakMinutes) =>
               /\ resp'.totals.ok
               /\ resp'.totals.totalMinutes = C29_Span(e.startTime, e.endTime)
               /\ resp'.totals.paidMinutes =
                    C29_Span(e.startTime, e.endTime) - e.breakMinutes
               /\ resp'.totals.paidMinutes >= 0
         /\ C29_Failing(e.startTime, e.endTime, e.breakMinutes) => ~resp'.totals.ok

C29_Create(x) ==
  \/ IF C29_Failing(x.startTime, x.endTime, C29_Break(x.breakMinutes))
       THEN C29_Refused
       ELSE resp'.kind \in {"ok", "Conflict"}
  \/ ~CreateManualTimeEntry("B1", Actor("m1"), NULL, x.workDate, x.startTime, x.endTime,
                            x.breakMinutes)

\* the fields entry id has once the body x is applied
C29_Next(id, x) ==
  [startTime |-> IF x.startTime = UNDEF THEN entries[id].startTime ELSE x.startTime,
   endTime |-> IF x.endTime = UNDEF THEN entries[id].endTime ELSE x.endTime,
   breakMinutes |-> IF x.breakMinutes = {} THEN entries[id].breakMinutes
                    ELSE C29_Break(x.breakMinutes)]

C29_Update(id, x) ==
  \/ entries[id].status \notin {"draft", "rejected"}
  \/ IF \/ C29_Failing(C29_Next(id, x).startTime, C29_Next(id, x).endTime,
                        C29_Next(id, x).breakMinutes)
        \/ ~C29_IsTime(C29_Next(id, x).endTime)
       THEN C29_Refused
       ELSE resp'.kind \in {"ok", "Conflict"}
  \/ ~UpdateManualTimeEntry("B1", Actor("m1"), id, x.workDate, x.startTime, x.endTime,
                            x.breakMinutes)

C29_Submit(id) ==
  \/ entries[id].status \notin {"draft", "rejected"}
  \/ \A now \in Dates : ~SubmitTimeEntry("B1", Actor("m1"), id, now)
  \/ IF C29_Valid(entries[id].startTime, entries[id].endTime, entries[id].breakMinutes)
       THEN resp'.kind = "ok" /\ entries'[id].status = "submitted"
       ELSE C29_Refused

\* C29: computeManualTotals, for every valid HH:mm start and end with
\* end > start and every break with 0 <= breakMinutes <= end - start, returns
\* totalMinutes = end - start and paidMinutes = totalMinutes - breakMinutes
\* (>= 0); it fails when end <= start and when breakMinutes > totalMinutes,
\* and createManualTimeEntry, updateManualTimeEntry and submitTimeEntry
\* answer that failure with BadRequest and leave the collection as it was;
\* this is stated of every step that answers a request.
C29_TotalsAndBadRequest ==
  [][ \/ resp'.kind = "none"
      \/ /\ \A x \in TotalsCreateArgs : C29_Create(x)
         /\ \A id \in DOMAIN entries \cap TotalsIds :
              /\ C29_Get(id)
              /\ C29_Submit(id)
              /\ \A x \in TotalsUpdateBodies : C29_Update(id, x)
    ]_vars

\* getTimeEntry has answered with the totals of an entry whose break is as
\* long as its interval (09:00-09:30, break 30): 30 minutes in total, 0 paid
C29_Witness ==
  /\ resp.kind = "ok"
  /\ resp.totals.ok
  /\ resp.totals.totalMinutes = 30
  /\ resp.totals.paidMinutes = 0
  /\ \E i \in resp.rows :
       /\ entries[i].startTime = T0900 /\ entries[i].endTime = T0930
       /\ entries[i].breakMinutes = 30

----------------------------------------------------------------------------
(* C30 *)

\* the multiples of inc that can be the answer for a number up to MaxMinutes
C30_Multiples(inc) == { k * inc : k \in 0..(MaxMinutes + 1) }

C30_Distance(a, b) == IF a >= b THEN a - b ELSE b - a

\* what the claim says of the result r of roundMinutes(m, inc, mode)
C30_Rounded(m, inc, mode, r) ==
  IF inc = 0 THEN r = m
  ELSE CASE mode = "up" ->
              /\ r \in C30_Multiples(inc)
              /\ r >= m
              /\ \A k \in C30_Multiples(inc) : k >= m => r <= k
         [] mode = "down" ->
              /\ r \in C30_Multiples(inc)
              /\ r <= m
              /\ \A k \in C30_Multiples(inc) : k <= m => r >= k
         [] mode = "nearest" ->
              /\ r \in C30_Multiples(inc)
              /\ 2 * C30_Distance(r, m) <= inc
              /\ \A k \in C30_Multiples(inc) :
                   C30_Distance(r, m) <= C30_Distance(k, m)
         [] OTHER -> TRUE

\* C30: roundMinutes(m, inc, mode) returns m unchanged when inc is 0, for
\* every mode; for inc > 0 the result is a multiple of inc: the least one
\* >= m for mode up (ceil(m/inc)*inc), the greatest one <= m for mode down
\* (floor(m/inc)*inc), and a nearest one for mode nearest, within inc/2 of m,
\* for every non-negative integer m.
C30_RoundMinutes ==
  [][ \A m \in 0..MaxMinutes, inc \in RoundingIncrements, mode \in RoundingModes :
        RoundMinutes(m, inc, mode) =>
          C30_Rounded(m, inc, mode, resp'.totals.paidMinutesRounded)
    ]_vars

\* 3 minutes, halfway between two multiples of 6, came back as 6
C30_Witness ==
  /\ resp.kind = "ok"
  /\ resp.totals.ok
  /\ resp.totals.paidMinutes = 3
  /\ resp.totals.paidMinutesRounded = 6
  /\ entries = InitEntries

----------------------------------------------------------------------------
(* C31 *)

\* the totals of entry e can be computed: both times are HH:mm, the end is
\* after the start and the break fits
C31_Computable(e) ==
  /\ C29_IsTime(e.startTime) /\ C29_IsTime(e.endTime)
  /\ C29_Span(e.startTime, e.endTime) > 0
  /\ e.breakMinutes <= C29_Span(e.startTime, e.endTime)

C31_Paid(e) == C29_Span(e.startTime, e.endTime) - e.breakMinutes

\* the multiple of inc nearest to p, for an odd inc
C31_Nearest(p, inc) ==
  CHOOSE r \in { k * inc : k \in 0..((p \div inc) + 1) } :
    2 * C30_Distance(r, p) <= inc

\* the sums over the rows whose totals can be computed
RECURSIVE C31_Sums(_, _)
C31_Sums(rows, inc) ==
  IF rows = {} THEN [paid |-> 0, rounded |-> 0, break |-> 0]
  ELSE LET i == CHOOSE r \in rows : TRUE
           rest == C31_Sums(rows \ {i}, inc)
       IN  [paid |-> rest.paid + C31_Paid(entries[i]),
            rounded |-> rest.rounded + C31_Nearest(C31_Paid(entries[i]), inc),
            break |-> rest.break + entries[i].breakMinutes]

\* the rows the query of actor a selects
C31_Rows(a, q) ==
  listRows(entries, Tenant(a), IF q.mine THEN a ELSE q.userId, q.from, q.to, NULL)

C31_Summary(a, q) ==
  LET rows == C31_Rows(a, q)
      good == { i \in rows : C31_Computable(entries[i]) }
      sums == C31_Sums(good, 15)
  IN  /\ resp'.kind = "ok"
      /\ \A st \in {"draft", "submitted", "approved", "rejected", "void"} :
           resp'.summary[st] = Cardinality({ i \in rows : entries[i].status = st })
      /\ resp'.summary.totalPaidMinutes = sums.paid
      /\ resp'.summary.totalPaidMinutesRounded = sums.rounded
      /\ resp'.summary.totalBreakMinutes = sums.break

\* C31: getTimeEntrySummary never fails because of a malformed row: a call
\* that passes the role check answers ok; an entry whose totals cannot be
\* computed (missing or invalid times, end <= start, break > total) is
\* counted under its status and adds nothing to totalPaidMinutes,
\* totalPaidMinutesRounded and totalBreakMinutes, which are the sums over the
\* other selected entries.
C31_MalformedRowsCountedNotSummed ==
  [][ \A a \in SummaryActors, q \in SummaryQueries :
        (IsSummary(a, q) /\ (a = "m1" \/ q.mine)) => C31_Summary(a, q)
    ]_vars

\* a summary of two drafts, the row with a break longer than its interval
\* and 09:30-23:59: 869 minutes paid, 870 rounded, no break
C31_Witness ==
  /\ resp.kind = "ok"
  /\ resp.summary.draft = 2
  /\ resp.summary.totalPaidMinutes = 869
  /\ resp.summary.totalPaidMinutesRounded = 870
  /\ resp.summary.totalBreakMinutes = 0
  /\ Len(entries) = 3
  /\ entries[2].breakMinutes = 31
  /\ entries[3].startTime = T0930 /\ entries[3].endTime = T2359

----------------------------------------------------------------------------
(* C32 *)

\* endTime strictly after startTime and 0 <= breakMinutes <= endTime - startTime
C32_Bounded(e) ==
  /\ C29_IsTime(e.startTime) /\ C29_IsTime(e.endTime)
  /\ C29_Span(e.startTime, e.endTime) > 0
  /\ 0 <= e.breakMinutes
  /\ e.breakMinutes <= C29_Span(e.startTime, e.endTime)

\* a break that is negative or longer than the interval
C32_BadBreak(startTime, endTime, break) ==
  \/ break < 0
  \/ C29_IsTime(startTime) /\ C29_IsTime(endTime)
       /\ break > C29_Span(startTime, endTime)

C32_Create(a, x) ==
  \/ ~C32_BadBreak(x.startTime, x.endTime, C29_Break(x.breakMinutes))
  \/ entries' = entries
  \/ ~CreateManualTimeEntry(Tenant(a), Actor(a), x.target, x.workDate, x.startTime,
                            x.endTime, x.breakMinutes)

C32_Update(a, id, x) ==
  \/ ~C32_BadBreak(C29_Next(id, x).startTime, C29_Next(id, x).endTime,
                   C29_Next(id, x).breakMinutes)
  \/ entries' = entries
  \/ ~UpdateManualTimeEntry(Tenant(a), Actor(a), id, x.workDate, x.startTime, x.endTime,
                            x.breakMinutes)

\* C32: with requests served one at a time, every manual entry stored through
\* createManualTimeEntry or updateManualTimeEntry has endTime strictly after
\* startTime and 0 <= breakMinutes <= endTime - startTime; a create or update
\* whose break is negative or longer than the interval stores nothing.
C32_StoredEntriesBounded ==
  [][ /\ \A i \in DOMAIN entries' :
           entries'[i].entryType = "manual" => C32_Bounded(entries'[i])
      /\ resp'.kind = "none"
         \/ \A a \in BoundsActors :
              /\ \A x \in BoundsCreateArgs : C32_Create(a, x)
              /\ \A id \in DOMAIN entries \cap BoundsIds :
                   \A x \in BoundsUpdateBodies : C32_Update(a, id, x)
    ]_vars

\* an update with a negative break was turned down by the schema, and the
\* rejected entry it was for keeps its break of 30 on 09:00-09:30
C32_Witness ==
  /\ resp.kind = "ValidationError"
  /\ \E i \in DOMAIN entries :
       /\ entries[i].status = "rejected"
       /\ entries[i].startTime = T0900 /\ entries[i].endTime = T0930
       /\ entries[i].breakMinutes = 30

----------------------------------------------------------------------------
(* C33 *)

\* the stored entries of the tenant of a whose type is not manual
C33_NonManual(a) ==
  { i \in DOMAIN entries :
      entries[i].business = Tenant(a) /\ entries[i].entryType # "manual" }

\* the six calls of actor a on the id, with each choice of the other arguments
C33_Get(a, id) == GetTimeEntry(Tenant(a), Actor(a), id)

C33_Update(a, id, x) ==
  UpdateManualTimeEntry(Tenant(a), Actor(a), id, x.workDate, x.startTime, x.endTime,
                        x.breakMinutes)

C33_Submit(a, id, now) == SubmitTimeEntry(Tenant(a), Actor(a), id, now)

C33_Approve(a, id, now) == ApproveTimeEntry(Tenant(a), Actor(a), id, now)

C33_Reject(a, id, r) == RejectTimeEntry(Tenant(a), Actor(a), id, r)

C33_Void(a, id) == VoidTimeEntry(Tenant(a), Actor(a), id)

\* some call of a on the id
C33_Call(a, id) ==
  \/ C33_Get(a, id) \/ C33_Void(a, id)
  \/ \E x \in UpdateBodies : C33_Update(a, id, x)
  \/ \E now \in Dates : C33_Submit(a, id, now) \/ C33_Approve(a, id, now)
  \/ \E r \in Reasons : C33_Reject(a, id, r)

\* C33, as stated: every call of the six handlers on an in-tenant entry that
\* is not manual answers NotFound, whoever calls and whatever the arguments
C33_NotFoundForEveryCall ==
  [][ \A a \in NonManualActors :
        \A id \in C33_NonManual(a) : C33_Call(a, id) => resp'.kind = "NotFound"
    ]_vars

\* the step is the same call on the id and on the id that no document has:
\* same answer, same effect
C33_SameAsMissing(a, id) ==
  /\ C33_Get(a, id) <=> C33_Get(a, MissingId)
  /\ C33_Void(a, id) <=> C33_Void(a, MissingId)
  /\ \A x \in UpdateBodies : C33_Update(a, id, x) <=> C33_Update(a, MissingId, x)
  /\ \A now \in Dates :
       /\ C33_Submit(a, id, now) <=> C33_Submit(a, MissingId, now)
       /\ C33_Approve(a, id, now) <=> C33_Approve(a, MissingId, now)
  /\ \A r \in Reasons : C33_Reject(a, id, r) <=> C33_Reject(a, MissingId, r)

\* the answer when the checks that come before the load let the call through
C33_Answer(a, id) ==
  /\ C33_Get(a, id) \/ C33_Void(a, id) => resp'.kind = "NotFound"
  /\ \A x \in UpdateBodies : C33_Update(a, id, x) => resp'.kind = "NotFound"
  /\ \A now \in Dates :
       /\ C33_Submit(a, id, now) => resp'.kind = "NotFound"
       /\ C33_Approve(a, id, now) =>
            resp'.kind = (IF a \in ManagerLikeUsers THEN "NotFound" ELSE "Forbidden")
  /\ \A r \in Reasons :
       C33_Reject(a, id, r) =>
         resp'.kind = (IF a \notin ManagerLikeUsers THEN "Forbidden"
                       ELSE IF r \in C18_BadReasons THEN "BadRequest"
                       ELSE "NotFound")

\* C33: an in-tenant entry whose type is not manual is indistinguishable
\* from a missing one: for the same actor and arguments, getTimeEntry,
\* updateManualTimeEntry, submitTimeEntry, approveTimeEntry, rejectTimeEntry
\* and voidTimeEntry answer a non-manual entry exactly as they answer an id
\* that no document has, and leave the collection unchanged; the answer is
\* NotFound, except that approve and reject answer Forbidden to an actor who
\* is not manager-like and reject answers BadRequest for a reason shorter
\* than 2 characters, for both ids alike.
C33_NonManualAsMissing ==
  [][ \/ resp'.kind = "none"
      \/ \A a \in NonManualActors :
           \A id \in C33_NonManual(a) :
             /\ C33_SameAsMissing(a, id)
             /\ C33_Answer(a, id)
             /\ C33_Call(a, id) => entries' = entries /\ resp'.rows = {}
    ]_vars

\* a call was answered NotFound with the clock entry and a manual entry
\* stored, the manual one approved
C33_Witness ==
  /\ resp.kind = "NotFound"
  /\ entries[1] = LegacyClockEntry
  /\ Len(entries) > 1
  /\ entries[2].status = "approved"

----------------------------------------------------------------------------
(* C34 *)

\* the typed failures of the services
C34_TypedFailures == {"BadRequest", "Forbidden", "NotFound", "Conflict"}

\* C34: every time-entry or shift operation that returns a typed failure
\* (BadRequest, Forbidden, NotFound, Conflict) leaves the whole stored state
\* unchanged: no failed call applies a part of its change.
C34_FailureChangesNothing ==
  [][ resp'.kind \in C34_TypedFailures => entries' = entries /\ shifts' = shifts ]_vars

\* an assigned shift is stored as it was created after a request on the
\* shifts was refused with Conflict
C34_Witness ==
  /\ resp.kind = "Conflict"
  /\ Len(shifts) > 0
  /\ shifts[1].user = "e1"
  /\ shifts[1].status = "draft"

----------------------------------------------------------------------------
(* C35 *)

\* what the data edits are about, and what the transitions are about
C35_Data(e) ==
  <<e.business, e.user, e.workDate, e.startTime, e.endTime, e.breakMinutes>>

C35_Workflow(e) == <<e.status, e.user, e.business, e.rejectionReason>>

\* a call of submit, approve, reject, void or a bulk operation
C35_IsTransition ==
  \E a \in Actors :
    \/ \E id \in EntryIds :
         \/ VoidTimeEntry(Tenant(a), Actor(a), id)
         \/ \E now \in Dates : \/ SubmitTimeEntry(Tenant(a), Actor(a), id, now)
                                \/ ApproveTimeEntry(Tenant(a), Actor(a), id, now)
         \/ \E r \in Reasons : RejectTimeEntry(Tenant(a), Actor(a), id, r)
    \/ \E ids \in IdLists :
         \/ \E now \in Dates : BulkApproveTimeEntries(Tenant(a), Actor(a), ids, now)
         \/ \E r \in BulkReasons : BulkRejectTimeEntries(Tenant(a), Actor(a), ids, r)

C35_IsUpdate ==
  \E a \in Actors, id \in EntryIds, x \in UpdateBodies :
    UpdateManualTimeEntry(Tenant(a), Actor(a), id, x.workDate, x.startTime, x.endTime,
                          x.breakMinutes)

\* C35: status transitions and data edits are disjoint in effect: submit,
\* approve, reject, void and the bulk operations never change the business,
\* user, workDate, startTime, endTime or breakMinutes of an entry, and
\* updateManualTimeEntry never changes the status, user, business or
\* rejectionReason of an entry, so a rejected entry is still rejected, with
\* its reason, after an edit.
C35_TransitionsAndEditsDisjoint ==
  [][ /\ \/ \A i \in DOMAIN entries : C35_Data(entries'[i]) = C35_Data(entries[i])
         \/ ~C35_IsTransition
      /\ \/ \A i \in DOMAIN entries :
              C35_Workflow(entries'[i]) = C35_Workflow(entries[i])
         \/ ~C35_IsUpdate
    ]_vars

\* a rejected entry after a successful edit: the new date, times and break,
\* still rejected and with the trimmed reason
C35_Witness ==
  /\ resp.kind = "ok"
  /\ resp.rows = {2}
  /\ Len(entries) = 2
  /\ entries[2].status = "rejected"
  /\ entries[2].rejectionReason = C18_Trimmed
  /\ entries[2].workDate = "2024-01-06"
  /\ entries[2].startTime = T1100 /\ entries[2].endTime = T1300
  /\ entries[2].breakMinutes = 30

----------------------------------------------------------------------------
(* C36 *)

\* the entries created through createManualTimeEntry
C36_Created(docs) == { i \in DOMAIN docs : i > Len(InitEntries) }

\* the audit fields of entry e agree with its status
C36_Audited(e) ==
  /\ e.status \in {"submitted", "approved", "rejected"} => e.submittedAt # NULL
  /\ e.status = "approved" =>
       /\ e.approvedBy # NULL /\ e.approvedAt # NULL
       /\ UserTable[e.approvedBy].role \in {"owner", "manager"}
  /\ e.status = "rejected" => Len(e.rejectionReason) >= 2

\* a call of rejectTimeEntry or bulkRejectTimeEntries
C36_IsReject ==
  \E a \in Actors :
    \/ \E id \in EntryIds, r \in Reasons : RejectTimeEntry(Tenant(a), Actor(a), id, r)
    \/ \E ids \in IdLists, r \in BulkReasons :
         BulkRejectTimeEntries(Tenant(a), Actor(a), ids, r)

\* C36: with requests served one at a time, in every state reached from
\* entries created through createManualTimeEntry an entry that is submitted,
\* approved or rejected has submittedAt set; an approved entry has approvedBy
\* and approvedAt set, approvedBy naming a manager-like actor; a rejected
\* entry has a rejectionReason of at least 2 characters; and a step that
\* changes a rejectionReason is a call of rejectTimeEntry or
\* bulkRejectTimeEntries.
C36_AuditFieldsAgree ==
  [][ /\ \A i \in C36_Created(entries') : C36_Audited(entries'[i])
      /\ \/ \A i \in DOMAIN entries :
              entries'[i].rejectionReason = entries[i].rejectionReason
         \/ C36_IsReject
    ]_vars

\* an entry that was rejected, submitted again and approved by the manager:
\* it carries all four audit fields
C36_Witness ==
  /\ Len(entries) = 2
  /\ entries[2].status = "approved"
  /\ entries[2].approvedBy = "m1"
  /\ entries[2].approvedAt # NULL
  /\ entries[2].submittedAt # NULL
  /\ entries[2].rejectionReason = C18_Trimmed

----------------------------------------------------------------------------
(* C37 *)

\* C37, as stated: void stays terminal under interleaving: when single-entry
\* requests on one entry interleave between their findById and their save, an
\* entry whose stored status is void never has another status afterwards.
C37_VoidTerminalUnderInterleaving ==
  [][ \A i \in DOMAIN entries :
        entries[i].status = "void" => entries'[i].status = "void"
    ]_vars

\* what holds instead: a request that loads the entry as void does not
\* change its status; the step that takes an entry out of void is the save
\* of a request that loaded it before it was voided
C37_OnlyStaleSaveLeavesVoid ==
  [][ \A i \in DOMAIN entries :
        (entries[i].status = "void" /\ entries'[i].status # "void")
        => \E p \in Procs :
             /\ SaveEntry(p)
             /\ inflight[p].id = i
             /\ inflight[p].loaded.status # "void"
             /\ entries'[i].status = inflight[p].doc.status
    ]_vars

\* the entry is stored as approved while a request that loaded it as void is
\* still waiting to save
C37_Witness ==
  /\ Len(entries) > Len(InitEntries)
  /\ entries[EntryRaceId].status = "approved"
  /\ \E p \in Procs :
       inflight[p].pc = "save" /\ inflight[p].loaded.status = "void"

----------------------------------------------------------------------------
(* C38 *)

C38_Decisions == {"approved", "rejected"}

\* request p is a decision that read the entry as submitted, and the entry
\* has received the other decision since
C38_DecidedMeanwhile(p) ==
  /\ inflight[p].pc = "save"
  /\ inflight[p].doc.status \in C38_Decisions
  /\ entries[inflight[p].id].status \in C38_Decisions \ {inflight[p].doc.status}

\* C38, as stated: a submitted entry receives at most one decision: when
\* approveTimeEntry and rejectTimeEntry run concurrently on one submitted
\* entry, the call that comes second fails with Conflict and changes nothing.
C38_AtMostOneDecision ==
  [][ \A p \in Procs :
        (C38_DecidedMeanwhile(p) /\ SaveEntry(p))
        => resp'.kind = "Conflict" /\ entries' = entries
    ]_vars

\* what holds instead: a decision that reads the entry after the other one
\* was saved is refused with Conflict; one that read it as submitted is
\* saved and answered ok, whatever the entry holds by then
C38_DecisionRunsOnLoadedStatus ==
  [][ \A p \in Procs :
        /\ \A a \in EntryRaceActors :
             ( \/ \E now \in Dates : ApproveLoad(p, Tenant(a), Actor(a), EntryRaceId, now)
               \/ RejectLoad(p, Tenant(a), Actor(a), EntryRaceId, ReasonOk) )
             => IF EntryRaceId \notin DOMAIN entries
                  THEN resp'.kind = "NotFound"
                ELSE IF entries[EntryRaceId].status # "submitted"
                  THEN resp'.kind = "Conflict" /\ inflight' = inflight
                ELSE inflight'[p].pc = "save"
        /\ SaveEntry(p) =>
             /\ resp'.kind = "ok"
             /\ entries'[inflight[p].id].status = inflight[p].doc.status
    ]_vars

\* both decisions were applied to the entry: it is rejected, with its reason,
\* and carries the approvedBy and approvedAt of the approval
C38_Witness ==
  /\ resp.kind = "ok"
  /\ Len(entries) > Len(InitEntries)
  /\ entries[EntryRaceId].status = "rejected"
  /\ entries[EntryRaceId].rejectionReason = C18_Trimmed
  /\ entries[EntryRaceId].approvedBy = "m1"
  /\ entries[EntryRaceId].approvedAt # NULL

----------------------------------------------------------------------------
(* C39 *)

C39_StaleWrite(p) ==
  LET id == inflight[p].id
      doc == IF inflight[p].pc = "createShift" THEN inflight[p].doc
             ELSE savePaths(shifts[id], inflight[p].loaded, inflight[p].doc)
  IN  /\ inflight[p].pc \in {"createShift", "saveShift"}
      /\ ShiftInTheWay(id, doc.business, doc.user, doc.startAt, doc.endAt)

----------------------------------------------------------------------------
(* C40 *)

\* the hours of an entry
C40_Hours(e) == <<e.workDate, e.startTime, e.endTime, e.breakMinutes>>

\* C40, as stated: when updateManualTimeEntry interleaves with
\* submitTimeEntry and approveTimeEntry on one entry, an approved entry keeps
\* the workDate, startTime, endTime and breakMinutes it had when it was
\* approved, and its status never goes from approved back to draft.
C40_ApprovedHoursFrozen ==
  [][ \A i \in DOMAIN entries :
        entries[i].status = "approved"
        => /\ entries'[i].status # "draft"
           /\ entries'[i].status = "approved"
                => C40_Hours(entries'[i]) = C40_Hours(entries[i])
    ]_vars

\* what holds instead: no step takes an entry from approved to draft, and
\* the hours of an approved entry change only by the save of an update that
\* loaded the entry while it was still editable; that save leaves the status
\* approved
C40_OnlyStaleUpdateChangesApprovedHours ==
  [][ \A i \in DOMAIN entries :
        entries[i].status = "approved"
        => /\ entries'[i].status # "draft"
           /\ C40_Hours(entries'[i]) # C40_Hours(entries[i])
                => \E p \in Procs :
                     /\ SaveEntry(p)
                     /\ inflight[p].id = i
                     /\ isEditableStatus(inflight[p].loaded.status)
                     /\ C40_Hours(entries'[i]) = C40_Hours(inflight[p].doc)
                     /\ entries'[i].status = "approved"
                     /\ resp'.kind = "ok"
    ]_vars

\* the update read the entry as draft, submit and approve have completed:
\* the entry is approved with the hours it was created with, and the update
\* is about to save other hours
C40_Witness ==
  /\ Len(entries) > Len(InitEntries)
  /\ entries[EntryRaceId].status = "approved"
  /\ entries[EntryRaceId].approvedBy = "m1"
  /\ entries[EntryRaceId].workDate = "2024-01-05"
  /\ \E p \in Procs :
       /\ inflight[p].pc = "save"
       /\ inflight[p].loaded.status = "draft"
       /\ inflight[p].doc.status = "draft"
       /\ C40_Hours(inflight[p].doc) = <<"2024-01-06", T1100, T1300, 30>>

====
